---- MODULE Spec2Model ----
(***************************************************************************)
(* API Navigator: the endpoint index (src/src/EndpointIndex.ts), the       *)
(* refresh triggers that rebuild it (src/src/extension.ts) and the pure    *)
(* helpers it uses.  Strings that the code inspects character by character *)
(* (endpoint paths, HTTP methods) are sequences of one-character strings;  *)
(* parameter names and source locations are plain strings.                 *)
(***************************************************************************)
EXTENDS Integers, Sequences, FiniteSets, TLC

VARIABLES
    endpoints,    \* EndpointIndex.endpoints: the Map, as entries in insertion order
    fired,        \* number of _onDidChange.fire() calls so far
    calls,        \* one record per refreshIndex call: position and locals
    active,       \* FALSE once deactivate() has run
    lastFire,     \* history: what the latest change notification announced
    arg,          \* input of the pure function under check
    res           \* its result

vars == <<endpoints, fired, calls, active, lastFire, arg, res>>

indexVars == <<endpoints, fired, calls, active, lastFire>>

(***************************************************************************)
(* Bounds of the model.                                                     *)
(***************************************************************************)
\* refreshIndex calls made during one activation
NumCalls == 2
\* descriptors one scan returns
MaxScan == 2
\* parameters of one descriptor handed to validateParams
MaxParams == 2
\* path segments of a route template
MaxSegs == 3

(***************************************************************************)
(* Characters and strings.                                                  *)
(***************************************************************************)
LowerOf ==
    [A |-> "a", B |-> "b", C |-> "c", D |-> "d", E |-> "e", F |-> "f",
     G |-> "g", H |-> "h", I |-> "i", J |-> "j", K |-> "k", L |-> "l",
     M |-> "m", N |-> "n", O |-> "o", P |-> "p", Q |-> "q", R |-> "r",
     S |-> "s", T |-> "t", U |-> "u", V |-> "v", W |-> "w", X |-> "x",
     Y |-> "y", Z |-> "z"]

UpperOf ==
    [a |-> "A", b |-> "B", c |-> "C", d |-> "D", e |-> "E", f |-> "F",
     g |-> "G", h |-> "H", i |-> "I", j |-> "J", k |-> "K", l |-> "L",
     m |-> "M", n |-> "N", o |-> "O", p |-> "P", q |-> "Q", r |-> "R",
     s |-> "S", t |-> "T", u |-> "U", v |-> "V", w |-> "W", x |-> "X",
     y |-> "Y", z |-> "Z"]

\* String.prototype.toLowerCase, one character
LowerChar(c) == IF c \in DOMAIN LowerOf THEN LowerOf[c] ELSE c

\* String.prototype.toUpperCase, one character
UpperChar(c) == IF c \in DOMAIN UpperOf THEN UpperOf[c] ELSE c

toLowerCase(s) == [i \in 1..Len(s) |-> LowerChar(s[i])]

toUpperCase(s) == [i \in 1..Len(s) |-> UpperChar(s[i])]

\* String.prototype.indexOf(ch, from), 1-based; 0 when ch does not occur
indexOf(s, ch, from) ==
    IF \E j \in from..Len(s) : s[j] = ch
    THEN CHOOSE j \in from..Len(s) :
             s[j] = ch /\ \A k \in from..(j - 1) : s[k] # ch
    ELSE 0

\* the JavaScript value undefined, for fields that hold a string otherwise
Undefined == "undefined"

(***************************************************************************)
(* EndpointIndex.normalizeEndpoint                                          *)
(***************************************************************************)
\* path.substring(0, queryIndex) when the path holds a '?'
StripQuery(path) ==
    LET q == indexOf(path, "?", 1)
    IN  IF q = 0 THEN path ELSE SubSeq(path, 1, q - 1)

\* .replace(/\{[^}]+\}/g, '*'): a '{', one or more characters other than
\* '}', and the first '}' that follows
RECURSIVE ReplaceBraceFrom(_, _)
ReplaceBraceFrom(s, i) ==
    IF i > Len(s) THEN <<>>
    ELSE LET close == indexOf(s, "}", i + 1)
         IN  IF s[i] = "{" /\ close >= i + 2
             THEN <<"*">> \o ReplaceBraceFrom(s, close + 1)
             ELSE <<s[i]>> \o ReplaceBraceFrom(s, i + 1)

ReplaceBraceParams(s) == ReplaceBraceFrom(s, 1)

\* .replace(/\$\{[^}]+\}/g, '*'), applied to the result of the first replace
RECURSIVE ReplaceDollarFrom(_, _)
ReplaceDollarFrom(s, i) ==
    IF i > Len(s) THEN <<>>
    ELSE LET close == indexOf(s, "}", i + 2)
         IN  IF /\ s[i] = "$"
                /\ i + 1 <= Len(s)
                /\ s[i + 1] = "{"
                /\ close >= i + 3
             THEN <<"*">> \o ReplaceDollarFrom(s, close + 1)
             ELSE <<s[i]>> \o ReplaceDollarFrom(s, i + 1)

ReplaceDollarParams(s) == ReplaceDollarFrom(s, 1)

normalizeEndpoint(endpoint, httpMethod) ==
    LET path == StripQuery(endpoint)
        normalizedPath ==
            toLowerCase(ReplaceDollarParams(ReplaceBraceParams(path)))
    IN  normalizedPath \o <<":">> \o toUpperCase(httpMethod)

(***************************************************************************)
(* EndpointIndex.validateParams                                             *)
(***************************************************************************)
\* params[i] || '' : an absent element and an empty name both give ''
OrEmpty(params, i) ==
    IF i <= Len(params) /\ params[i] # "" THEN params[i] ELSE ""

\* x || '(missing)'
OrMissing(x) == IF x = "" THEN "(missing)" ELSE x

Max(a, b) == IF a >= b THEN a ELSE b

RECURSIVE ValidateFrom(_, _, _)
ValidateFrom(frontendParams, backendParams, i) ==
    IF i > Max(Len(frontendParams), Len(backendParams)) THEN <<>>
    ELSE LET frontendParam == OrEmpty(frontendParams, i)
             backendParam == OrEmpty(backendParams, i)
             rest == ValidateFrom(frontendParams, backendParams, i + 1)
         IN  IF frontendParam # backendParam
             THEN <<[position |-> i,
                     frontendParam |-> OrMissing(frontendParam),
                     backendParam |-> OrMissing(backendParam)]>> \o rest
             ELSE rest

validateParams(frontendParams, backendParams) ==
    ValidateFrom(frontendParams, backendParams, 1)

(***************************************************************************)
(* Scanner output.  A backend descriptor is a BackendEndpoint, a frontend   *)
(* descriptor a FrontendEndpoint.  The attribute scanner reports the verb   *)
(* as written in the attribute (Get, Delete), the decorator scanner and the *)
(* frontend scanner report it upper-cased.                                  *)
(***************************************************************************)
ApiU == <<"/","a","p","i","/","u","/">>

Verb(backendKind, name) ==
    IF backendKind = "dotnet" THEN name ELSE toUpperCase(name)

\* the backend definitions a scan of the workspace may find, in the order
\* the scanner of that kind reports them: three controller actions, or one
\* decorated route
BackendPool(backendKind) ==
    IF backendKind = "fastapi"
    THEN << [endpoint |-> ApiU \o <<"{","i","d","}">>,
             params |-> <<"id">>,
             location |-> "P1",
             httpMethod |-> Verb(backendKind, <<"g","e","t">>),
             rawEndpoint |-> ApiU \o <<"{","i","d",":","n","}">>] >>
    ELSE
    << [endpoint |-> ApiU \o <<"{","i","d","}">>,
        params |-> <<"id">>,
        location |-> "B1",
        httpMethod |-> Verb(backendKind, <<"G","e","t">>),
        rawEndpoint |-> ApiU \o <<"{","i","d",":","n","}">>],
       [endpoint |-> ApiU \o <<"{","k","}">>,
        params |-> <<"k">>,
        location |-> "B2",
        httpMethod |-> Verb(backendKind, <<"G","e","t">>),
        rawEndpoint |-> ApiU \o <<"{","k","}">>],
       [endpoint |-> ApiU \o <<"{","i","d","}">>,
        params |-> <<"id">>,
        location |-> "B3",
        httpMethod |-> Verb(backendKind, <<"D","e","l","e","t","e">>),
        rawEndpoint |-> ApiU \o <<"{","i","d","}">>] >>

\* the frontend call sites a scan of the workspace may find
FrontendPool ==
    << [endpoint |-> ApiU \o <<"{","i","d","}">>,
        params |-> <<"id">>,
        location |-> "F1",
        rawEndpoint |-> ApiU \o <<"$","{","i","d","}">>,
        httpMethod |-> <<"G","E","T">>],
       [endpoint |-> ApiU \o <<"{","i","d","}">>,
        params |-> <<"id">>,
        location |-> "F2",
        rawEndpoint |-> ApiU \o <<"$","{","i","d","}">>,
        httpMethod |-> <<"D","E","L","E","T","E">>] >>

\* the elements of pool whose index is in picked, in pool order
RECURSIVE PickFrom(_, _, _)
PickFrom(pool, picked, i) ==
    IF i > Len(pool) THEN <<>>
    ELSE (IF i \in picked THEN <<pool[i]>> ELSE <<>>)
             \o PickFrom(pool, picked, i + 1)

\* what one scan can return: at most MaxScan descriptors of the pool, in
\* the order the scanner reports them
Scans(pool) ==
    {PickFrom(pool, picked, 1) :
        picked \in {q \in SUBSET (1..Len(pool)) : Cardinality(q) <= MaxScan}}

DotnetScans == Scans(BackendPool("dotnet"))

FastApiScans == Scans(BackendPool("fastapi"))

FrontendScans == Scans(FrontendPool)

(***************************************************************************)
(* EndpointIndex.rebuild, the merge (lines 89-159).  The Map is a sequence  *)
(* of entries in insertion order, each carrying its key.                    *)
(***************************************************************************)
NoMessage == [text |-> Undefined, count |-> 0]

KeyIndex(eps, key) ==
    IF \E i \in 1..Len(eps) : eps[i].key = key
    THEN CHOOSE i \in 1..Len(eps) : eps[i].key = key
    ELSE 0

BackendDefinition(backend) ==
    [location |-> backend.location,
     httpMethod |-> backend.httpMethod,
     rawEndpoint |-> backend.rawEndpoint]

\* one iteration of the backend loop (lines 89-119)
IndexBackend(eps, backend) ==
    LET normalizedEndpoint ==
            normalizeEndpoint(backend.endpoint, backend.httpMethod)
        i == KeyIndex(eps, normalizedEndpoint)
    IN  IF i # 0
        THEN LET defs == Append(eps[i].backendDefinitions,
                                BackendDefinition(backend))
             IN  [eps EXCEPT ![i].status = "invalid",
                             ![i].backendDefinitions = defs,
                             ![i].errorMessage =
                                 [text |-> "Multiple backend definitions found",
                                  count |-> Len(defs)]]
        ELSE Append(eps,
                 [key |-> normalizedEndpoint,
                  endpoint |-> backend.endpoint,
                  rawEndpoint |-> backend.rawEndpoint,
                  backend |-> backend.location,
                  backendDefinitions |-> <<BackendDefinition(backend)>>,
                  httpMethod |-> backend.httpMethod,
                  backendParams |-> backend.params,
                  frontends |-> <<>>,
                  status |-> "valid",
                  paramMismatches |-> <<>>,
                  errorMessage |-> NoMessage])

\* an unresolved entry created for every call site, for comparison
WithNewEntry(eps, frontend, key) ==
    Append(eps,
        [key |-> key,
         endpoint |-> frontend.endpoint,
         rawEndpoint |-> <<>>,
         backend |-> Undefined,
         backendDefinitions |-> <<>>,
         httpMethod |-> frontend.httpMethod,
         backendParams |-> <<>>,
         frontends |-> <<>>,
         status |-> "unresolved",
         paramMismatches |-> <<>>,
         errorMessage |-> [text |-> "No backend definition found",
                           count |-> 0]])

\* lines 127-141: the entry of a key, created unresolved when there is none
WithEntry(eps, frontend, key) ==
    IF KeyIndex(eps, key) # 0 THEN eps
    ELSE Append(eps,
             [key |-> key,
              endpoint |-> frontend.endpoint,
              rawEndpoint |-> <<>>,       \* not set: undefined
              backend |-> Undefined,
              backendDefinitions |-> <<>>,
              httpMethod |-> frontend.httpMethod,
              backendParams |-> <<>>,
              frontends |-> <<>>,
              status |-> "unresolved",
              paramMismatches |-> <<>>,
              errorMessage |-> [text |-> "No backend definition found",
                                count |-> 0]])

\* lines 151-158: the parameter check of one call site
CheckParams(entry, frontend) ==
    IF entry.backend # Undefined /\ entry.status # "invalid"
    THEN LET mismatches == validateParams(frontend.params, entry.backendParams)
         IN  IF Len(mismatches) > 0
             THEN [entry EXCEPT !.status = "param-mismatch",
                                !.paramMismatches = mismatches]
             ELSE entry
    ELSE entry

\* one iteration of the frontend loop (lines 122-159)
IndexFrontend(eps, frontend) ==
    LET normalizedEndpoint ==
            normalizeEndpoint(frontend.endpoint, frontend.httpMethod)
        withEntry == WithEntry(eps, frontend, normalizedEndpoint)
        i == KeyIndex(withEntry, normalizedEndpoint)
        pushed == [withEntry[i] EXCEPT !.frontends =
                      Append(@, [location |-> frontend.location,
                                 params |-> frontend.params,
                                 rawEndpoint |-> frontend.rawEndpoint,
                                 httpMethod |-> frontend.httpMethod])]
    IN  [withEntry EXCEPT ![i] = CheckParams(pushed, frontend)]

RECURSIVE IndexBackends(_, _)
IndexBackends(eps, backendEndpoints) ==
    IF backendEndpoints = <<>> THEN eps
    ELSE IndexBackends(IndexBackend(eps, Head(backendEndpoints)),
                       Tail(backendEndpoints))

RECURSIVE IndexFrontends(_, _)
IndexFrontends(eps, frontendEndpoints) ==
    IF frontendEndpoints = <<>> THEN eps
    ELSE IndexFrontends(IndexFrontend(eps, Head(frontendEndpoints)),
                        Tail(frontendEndpoints))

\* lines 89-159 on the Map as it is when the frontend scan has returned
Merge(eps, backendEndpoints, frontendEndpoints) ==
    IndexFrontends(IndexBackends(eps, backendEndpoints), frontendEndpoints)

(***************************************************************************)
(* Queries (lines 214-233).                                                 *)
(***************************************************************************)
getAllEndpoints == endpoints

getEntry(endpoint, httpMethod) ==
    LET i == KeyIndex(endpoints, normalizeEndpoint(endpoint, httpMethod))
    IN  IF i = 0 THEN <<>> ELSE <<endpoints[i]>>

findBackendForEndpoint(endpoint, httpMethod) ==
    LET e == getEntry(endpoint, httpMethod)
    IN  IF e = <<>> THEN Undefined ELSE e[1].backend

(***************************************************************************)
(* Configuration (scanner/config.ts).                                       *)
(***************************************************************************)
\* String.prototype.lastIndexOf(ch), 1-based; 0 when ch does not occur
lastIndexOf(s, ch) ==
    IF \E j \in 1..Len(s) : s[j] = ch
    THEN CHOOSE j \in 1..Len(s) :
             s[j] = ch /\ \A k \in (j + 1)..Len(s) : s[k] # ch
    ELSE 0

RECURSIVE trimStart(_)
trimStart(s) ==
    IF s # <<>> /\ Head(s) = " " THEN trimStart(Tail(s)) ELSE s

RECURSIVE trimEnd(_)
trimEnd(s) ==
    IF s # <<>> /\ s[Len(s)] = " "
    THEN trimEnd(SubSeq(s, 1, Len(s) - 1))
    ELSE s

trim(s) == trimEnd(trimStart(s))

endsWith(s, suffix) ==
    /\ Len(s) >= Len(suffix)
    /\ SubSeq(s, Len(s) - Len(suffix) + 1, Len(s)) = suffix

\* the parsed entrypoint in a one-element sequence, or <<>> for null
parseFastapiEntrypoint(entrypoint) ==
    IF entrypoint = <<>> \/ indexOf(entrypoint, ":", 1) = 0 THEN <<>>
    ELSE LET lastColonIndex == lastIndexOf(entrypoint, ":")
             filePath == trim(SubSeq(entrypoint, 1, lastColonIndex - 1))
             appVar == trim(SubSeq(entrypoint, lastColonIndex + 1,
                                   Len(entrypoint)))
         IN  IF \/ filePath = <<>>
                \/ appVar = <<>>
                \/ ~endsWith(filePath, <<".","p","y">>)
             THEN <<>>
             ELSE <<[filePath |-> filePath, appVar |-> appVar]>>

\* a validation of the backend kind alone, for comparison
validateBackendKind(backendKind, fastapiEntrypoint) ==
    IF backendKind = "" THEN "Backend kind not configured"
    ELSE IF backendKind # "dotnet" /\ backendKind # "fastapi"
    THEN "Invalid backend kind"
    ELSE "null"

\* the error message, by its kind, or "null" for a valid configuration;
\* a backendKind that is not configured is ""
validateBackendConfig(backendKind, fastapiEntrypoint) ==
    IF backendKind = "" THEN "Backend kind not configured"
    ELSE IF backendKind # "dotnet" /\ backendKind # "fastapi"
    THEN "Invalid backend kind"
    ELSE IF backendKind = "fastapi" /\ fastapiEntrypoint = <<>>
    THEN "FastAPI entrypoint not configured"
    ELSE IF /\ backendKind = "fastapi"
            /\ parseFastapiEntrypoint(fastapiEntrypoint) = <<>>
    THEN "Invalid FastAPI entrypoint format"
    ELSE "null"

\* the settings a refresh may read
Configs ==
    { [backendKind |-> "dotnet", fastapiEntrypoint |-> <<>>],
      [backendKind |-> "fastapi",
       fastapiEntrypoint |-> <<"m",".","p","y",":","a">>],
      [backendKind |-> "fastapi", fastapiEntrypoint |-> <<>>],
      [backendKind |-> "fastapi", fastapiEntrypoint |-> <<"m",":","a">>],
      [backendKind |-> "fastapi", fastapiEntrypoint |-> <<"m",".","p","y">>],
      [backendKind |-> "flask", fastapiEntrypoint |-> <<>>],
      [backendKind |-> "", fastapiEntrypoint |-> <<>>] }

(***************************************************************************)
(* The index and its triggers as a state machine.  JavaScript runs each    *)
(* handler to its next await without interleaving, so an action is the     *)
(* code between two awaits of one refreshIndex call.                       *)
(***************************************************************************)
Calls == 1..NumCalls

Idle == [pc |-> "idle", backendKind |-> "", backendEndpoints |-> <<>>]

Ended(how) == [pc |-> how, backendKind |-> "", backendEndpoints |-> <<>>]

NoFire ==
    [by |-> "none", entries |-> <<>>,
     backendEndpoints |-> <<>>, frontendEndpoints |-> <<>>]

IndexInit ==
    /\ endpoints = <<>>
    /\ fired = 0
    /\ calls = [c \in Calls |-> Idle]
    /\ active = TRUE
    /\ lastFire = NoFire

\* rebuild up to its first await (lines 63-86): the Map is cleared, then the
\* backend scan of the configured kind is started
RebuildStart(c, backendKind, fastapiEntrypoint) ==
    /\ endpoints' = <<>>
    /\ calls' = [calls EXCEPT ![c] =
           IF backendKind = "fastapi" /\ fastapiEntrypoint = <<>>
           THEN [pc |-> "scanFrontend", backendKind |-> "",
                 backendEndpoints |-> <<>>]
           ELSE [pc |-> "scanBackend", backendKind |-> backendKind,
                 backendEndpoints |-> <<>>]]
    /\ UNCHANGED <<fired, lastFire>>

\* refreshIndex (extension.ts 79-114) up to the first await of rebuild;
\* called by activate, the refresh command, a configuration change and the
\* debounced file watchers
RefreshIndex(c, workspaceFolder, config) ==
    /\ active
    /\ calls[c].pc = "idle"
    /\ \A d \in Calls : d < c => calls[d].pc # "idle"
    /\ IF ~workspaceFolder
       THEN /\ calls' = [calls EXCEPT ![c] = Ended("noWorkspace")]
            /\ UNCHANGED <<endpoints, fired, lastFire>>
       ELSE IF validateBackendConfig(config.backendKind,
                                     config.fastapiEntrypoint) # "null"
       THEN /\ calls' = [calls EXCEPT ![c] = Ended("invalidConfig")]
            /\ UNCHANGED <<endpoints, fired, lastFire>>
       ELSE RebuildStart(c, config.backendKind, config.fastapiEntrypoint)
    /\ UNCHANGED <<active, arg, res>>

\* line 78 or 82 resumes with the descriptors of the scanner that
\* backendKind selected; backendKind is not read again
BackendScanReturns(c, backendEndpoints) ==
    /\ calls[c].pc = "scanBackend"
    /\ backendEndpoints \in
           (IF calls[c].backendKind = "fastapi"
            THEN FastApiScans ELSE DotnetScans)
    /\ calls' = [calls EXCEPT ![c] =
           [pc |-> "scanFrontend", backendKind |-> "",
            backendEndpoints |-> backendEndpoints]]
    /\ UNCHANGED <<endpoints, fired, active, lastFire, arg, res>>

\* an await of rebuild rejects: rebuild throws, refreshIndex reports the
\* error (extension.ts 128-130)
ScanThrows(c) ==
    /\ calls[c].pc \in {"scanBackend", "scanFrontend"}
    /\ calls' = [calls EXCEPT ![c] = Ended("threw")]
    /\ UNCHANGED <<endpoints, fired, active, lastFire, arg, res>>

\* a notification that stays silent when nothing was indexed, for comparison
FireRebuiltIfAny(entries, backendEndpoints, frontendEndpoints) ==
    IF entries = <<>>
    THEN UNCHANGED <<fired, lastFire>>
    ELSE /\ fired' = fired + 1
         /\ lastFire' = [by |-> "rebuild", entries |-> entries,
                         backendEndpoints |-> backendEndpoints,
                         frontendEndpoints |-> frontendEndpoints]

\* lines 159-161: the notification that ends a rebuild
FireRebuilt(entries, backendEndpoints, frontendEndpoints) ==
    /\ fired' = fired + 1
    /\ lastFire' = [by |-> "rebuild", entries |-> entries,
                    backendEndpoints |-> backendEndpoints,
                    frontendEndpoints |-> frontendEndpoints]

\* line 86 resumes with the frontend scanner's descriptors; the merge and
\* the notification follow without another await (lines 89-161)
FrontendScanReturns(c, frontendEndpoints) ==
    /\ calls[c].pc = "scanFrontend"
    /\ endpoints' = Merge(endpoints, calls[c].backendEndpoints,
                          frontendEndpoints)
    /\ FireRebuilt(endpoints', calls[c].backendEndpoints, frontendEndpoints)
    /\ calls' = [calls EXCEPT ![c] = Ended("done")]
    /\ UNCHANGED <<active, arg, res>>

\* EndpointIndex.clear (lines 238-241)
clear ==
    /\ endpoints' = <<>>
    /\ fired' = fired + 1
    /\ lastFire' = [NoFire EXCEPT !.by = "clear"]

\* deactivate (extension.ts 186-189)
Deactivate ==
    /\ active
    /\ active' = FALSE
    /\ clear
    /\ UNCHANGED <<calls, arg, res>>

Init ==
    /\ IndexInit
    /\ arg = <<>>
    /\ res = <<>>

Next ==
    \/ \E c \in Calls, workspaceFolder \in BOOLEAN, config \in Configs :
           RefreshIndex(c, workspaceFolder, config)
    \/ \E c \in Calls, b \in DotnetScans \cup FastApiScans :
           BackendScanReturns(c, b)
    \/ \E c \in Calls : ScanThrows(c)
    \/ \E c \in Calls, f \in FrontendScans : FrontendScanReturns(c, f)
    \/ Deactivate

Spec == Init /\ [][Next]_vars

(***************************************************************************)
(* Properties of the index under Spec.                                      *)
(***************************************************************************)
Rebuilt == lastFire.by = "rebuild"

\* the key the merge files a descriptor under
KeyOf(d) == normalizeEndpoint(d.endpoint, d.httpMethod)

\* the entry of a key in an entry set that holds one
EntryAt(eps, key) == eps[KeyIndex(eps, key)]

Locations(items) == {items[i].location : i \in 1..Len(items)}

\* a call that has started its rebuild and not finished it
InFlight(c) == calls[c].pc \in {"scanBackend", "scanFrontend"}

\* the entry sets the rebuild of an in-flight call yields if it runs to its
\* end on its own, given what it has scanned so far
CompleteResults(c) ==
    IF calls[c].pc = "scanFrontend"
    THEN {Merge(<<>>, calls[c].backendEndpoints, f) : f \in FrontendScans}
    ELSE {Merge(<<>>, b, f) :
             b \in (IF calls[c].backendKind = "fastapi"
                    THEN FastApiScans ELSE DotnetScans),
             f \in FrontendScans}

\* C1: when a rebuild call completes, the entry set is the merge of exactly
\* the descriptors its own backend and frontend scans returned; nothing of an
\* earlier or an overlapping rebuild remains in it.
C1_RebuildReplacesEntrySet ==
    Rebuilt =>
        lastFire.entries =
            Merge(<<>>, lastFire.backendEndpoints, lastFire.frontendEndpoints)

\* C2: whenever a reader can run, the entry set is the complete result of
\* the previous rebuild (what the latest notification announced) or a
\* complete result of a rebuild in flight; never an emptied or partial set.
C2_ReadersSeeCompleteSnapshot ==
    \/ getAllEndpoints = lastFire.entries
    \/ \E c \in Calls : InFlight(c) /\ getAllEndpoints \in CompleteResults(c)

\* every descriptor of the scans is filed in the entry of its key
FullyMerged(eps, backendEndpoints, frontendEndpoints) ==
    /\ \A i \in 1..Len(backendEndpoints) :
           LET k == KeyIndex(eps, KeyOf(backendEndpoints[i]))
           IN  /\ k # 0
               /\ backendEndpoints[i].location
                      \in Locations(eps[k].backendDefinitions)
    /\ \A i \in 1..Len(frontendEndpoints) :
           LET k == KeyIndex(eps, KeyOf(frontendEndpoints[i]))
           IN  /\ k # 0
               /\ frontendEndpoints[i].location \in Locations(eps[k].frontends)

\* C3: the change notification has fired once for every rebuild call that
\* completed (empty scans included) and once for every clear(), and for
\* nothing else; a rebuild's notification announces an entry set in which
\* all descriptors of that rebuild are merged.
C3_FiresOncePerRebuildAndClear ==
    /\ fired = Cardinality({c \in Calls : calls[c].pc = "done"})
                   + (IF active THEN 0 ELSE 1)
    /\ Rebuilt =>
           FullyMerged(lastFire.entries, lastFire.backendEndpoints,
                       lastFire.frontendEndpoints)

\* C3 witness: a rebuild has completed, another has thrown, and clear() ran
C3_Witness ==
    /\ ~active
    /\ fired = 2
    /\ \E c \in Calls : calls[c].pc = "done"
    /\ \E c \in Calls : calls[c].pc = "threw"

\* the status an entry's number of backend definitions allows
CountMatchesStatus(e) ==
    /\ Len(e.backendDefinitions) = 1
           <=> e.status \in {"valid", "param-mismatch"}
    /\ Len(e.backendDefinitions) > 1 => e.status = "invalid"
    /\ Len(e.backendDefinitions) = 0 => e.status = "unresolved"

\* C4: after any rebuild every entry has exactly one backend definition iff
\* its status is valid or param-mismatch, more than one only if invalid,
\* none only if unresolved.
C4_DefinitionCountMatchesStatus ==
    Rebuilt =>
        \A i \in 1..Len(lastFire.entries) :
            CountMatchesStatus(lastFire.entries[i])

MismatchesMatchStatus(e) ==
    (e.paramMismatches # <<>>) <=> (e.status = "param-mismatch")

\* C5: after any rebuild every entry has a non-empty paramMismatches list
\* iff its status is param-mismatch.
C5_MismatchesIffParamMismatch ==
    Rebuilt =>
        \A i \in 1..Len(lastFire.entries) :
            MismatchesMatchStatus(lastFire.entries[i])

\* the backend definitions of the descriptors of a scan that share a key,
\* in scan order
RECURSIVE DefinitionsOf(_, _)
DefinitionsOf(backendEndpoints, key) ==
    IF backendEndpoints = <<>> THEN <<>>
    ELSE (IF KeyOf(Head(backendEndpoints)) = key
          THEN <<BackendDefinition(Head(backendEndpoints))>> ELSE <<>>)
             \o DefinitionsOf(Tail(backendEndpoints), key)

DuplicateKept(eps, backendEndpoints, key) ==
    LET own == DefinitionsOf(backendEndpoints, key)
        e == EntryAt(eps, key)
    IN  Len(own) >= 2 =>
            /\ KeyIndex(eps, key) # 0
            /\ e.status = "invalid"
            /\ e.backendDefinitions = own
            /\ e.errorMessage = [text |-> "Multiple backend definitions found",
                                 count |-> Len(own)]

\* C6: n >= 2 backend descriptors of one rebuild with the same key give one
\* invalid entry that holds exactly these n definitions in scan order and a
\* message naming n, whatever frontend descriptors were merged after them.
C6_DuplicatesInvalidAndKept ==
    Rebuilt =>
        \A i \in 1..Len(lastFire.backendEndpoints) :
            DuplicateKept(lastFire.entries, lastFire.backendEndpoints,
                          KeyOf(lastFire.backendEndpoints[i]))

UnresolvedKept(eps, backendEndpoints, frontend) ==
    LET key == KeyOf(frontend)
        e == EntryAt(eps, key)
    IN  DefinitionsOf(backendEndpoints, key) = <<>> =>
            /\ KeyIndex(eps, key) # 0
            /\ e.status = "unresolved"
            /\ e.backend = Undefined
            /\ e.backendDefinitions = <<>>
            /\ e.errorMessage.text = "No backend definition found"
            /\ frontend.location \in Locations(e.frontends)

\* C7: a frontend descriptor whose key no backend descriptor of the same
\* rebuild has gives an unresolved entry without backend and definitions,
\* with the not-found message, that lists the call site.
C7_UnmatchedFrontendUnresolved ==
    Rebuilt =>
        \A i \in 1..Len(lastFire.frontendEndpoints) :
            UnresolvedKept(lastFire.entries, lastFire.backendEndpoints,
                           lastFire.frontendEndpoints[i])

\* the method a key ends with
MethodOfKey(key) == SubSeq(key, lastIndexOf(key, ":") + 1, Len(key))

\* the path a key starts with
PathOfKey(key) == SubSeq(key, 1, lastIndexOf(key, ":") - 1)

OwnMethodOnly(e) ==
    /\ \A i \in 1..Len(e.backendDefinitions) :
           toUpperCase(e.backendDefinitions[i].httpMethod) = MethodOfKey(e.key)
    /\ \A i \in 1..Len(e.frontends) :
           toUpperCase(e.frontends[i].httpMethod) = MethodOfKey(e.key)

\* valid, or param-mismatch on account of a call site whose parameters are
\* not the backend's
ValidButForParams(e) ==
    \/ e.status = "valid"
    \/ /\ e.status = "param-mismatch"
       /\ \E i \in 1..Len(e.frontends) :
              e.frontends[i].params # e.backendParams

\* two backend descriptors of one path and different methods, each the only
\* one of its key in the scan, have an entry each with that one definition
SamePathApart(eps, backendEndpoints, i, j) ==
    LET ki == KeyOf(backendEndpoints[i])
        kj == KeyOf(backendEndpoints[j])
    IN  (/\ PathOfKey(ki) = PathOfKey(kj)
         /\ MethodOfKey(ki) # MethodOfKey(kj)
         /\ Len(DefinitionsOf(backendEndpoints, ki)) = 1
         /\ Len(DefinitionsOf(backendEndpoints, kj)) = 1)
        => /\ KeyIndex(eps, ki) # 0
           /\ KeyIndex(eps, kj) # 0
           /\ KeyIndex(eps, ki) # KeyIndex(eps, kj)
           /\ \A k \in {ki, kj} :
                  /\ Len(EntryAt(eps, k).backendDefinitions) = 1
                  /\ ValidButForParams(EntryAt(eps, k))

\* C10: descriptors of one path and different methods never share an entry:
\* a GET and a DELETE definition of /api/u/{id} give two entries, each with
\* one definition and valid (as far as its call sites' parameters allow), and
\* every call site is filed under the entry of its own method, compared
\* without regard to case.
C10_MethodsNeverShareEntry ==
    Rebuilt =>
        /\ \A i \in 1..Len(lastFire.entries) :
               OwnMethodOnly(lastFire.entries[i])
        /\ \A i, j \in 1..Len(lastFire.backendEndpoints) :
               SamePathApart(lastFire.entries, lastFire.backendEndpoints, i, j)

\* the notification announced the merge of the rebuild's own scans alone:
\* no other rebuild call overlapped it
RanAlone ==
    /\ Rebuilt
    /\ lastFire.entries =
           Merge(<<>>, lastFire.backendEndpoints, lastFire.frontendEndpoints)

\* C4 to C7 and C10 for the rebuilds that no other rebuild overlapped
AloneRebuildWellFormed ==
    RanAlone =>
        /\ \A i \in 1..Len(lastFire.entries) :
               /\ CountMatchesStatus(lastFire.entries[i])
               /\ MismatchesMatchStatus(lastFire.entries[i])
               /\ OwnMethodOnly(lastFire.entries[i])
        /\ \A i \in 1..Len(lastFire.backendEndpoints) :
               DuplicateKept(lastFire.entries, lastFire.backendEndpoints,
                             KeyOf(lastFire.backendEndpoints[i]))
        /\ \A i \in 1..Len(lastFire.frontendEndpoints) :
               UnresolvedKept(lastFire.entries, lastFire.backendEndpoints,
                              lastFire.frontendEndpoints[i])
        /\ \A i, j \in 1..Len(lastFire.backendEndpoints) :
               SamePathApart(lastFire.entries, lastFire.backendEndpoints, i, j)

(***************************************************************************)
(* The pure functions on their own: Init draws an input, the action applies *)
(* the function to it.  res is <<>> before the call and holds the result in *)
(* a one-element sequence after it.                                         *)
(***************************************************************************)
\* all sequences over S of length at most n
RECURSIVE SeqsUpTo(_, _)
SeqsUpTo(S, n) ==
    IF n = 0 THEN {<<>>}
    ELSE LET shorter == SeqsUpTo(S, n - 1)
         IN  shorter \cup
             {Append(q, x) : q \in {r \in shorter : Len(r) = n - 1}, x \in S}

\* a route under /api: a literal segment or a parameter per element, the
\* parameter written the call-site way, ${name}, or the definition way,
\* {name} or {name:constraint}
RECURSIVE RenderFrom(_, _, _, _)
RenderFrom(template, open, name, i) ==
    IF i > Len(template) THEN <<>>
    ELSE (IF template[i] = "param"
          THEN <<"/">> \o open \o name \o <<"}">>
          ELSE <<"/", "U">>)
             \o RenderFrom(template, open, name, i + 1)

CallSitePath(template, name) ==
    <<"/","a","p","i">> \o RenderFrom(template, <<"$","{">>, name, 1)

DefinitionPath(template, name) ==
    <<"/","a","p","i">> \o RenderFrom(template, <<"{">>, name, 1)

NormalizeArgs ==
    [template : SeqsUpTo({"lit", "param"}, MaxSegs),
     httpMethod : {<<"G","E","T">>, <<"p","o","s","t">>},
     callName : {<<"x">>, <<"u","s","e","r","I","d">>},
     definitionName : {<<"y">>, <<"i","d",":","i","n","t">>}]

NormalizeInit ==
    /\ IndexInit
    /\ arg \in NormalizeArgs
    /\ res = <<>>

\* normalizeEndpoint on the two spellings of one route, as the merge and the
\* queries call it
NormalizeCall ==
    /\ res = <<>>
    /\ res' = << [callSite |->
                      normalizeEndpoint(
                          CallSitePath(arg.template, arg.callName),
                          arg.httpMethod),
                  definition |->
                      normalizeEndpoint(
                          DefinitionPath(arg.template, arg.definitionName),
                          arg.httpMethod)] >>
    /\ UNCHANGED <<indexVars, arg>>

SpecNormalize == NormalizeInit /\ [][NormalizeCall]_vars

\* C8: the key of a path written with ${x} placeholders is the key of the
\* same path written with {y} placeholders and the same method.
C8_CallAndDefinitionSyntaxSameKey ==
    res # <<>> => res[1].callSite = res[1].definition

\* names the frontend scanner can report: extractParamName returns the text
\* of a computed property, which may be empty
FrontendNames == {"id", "userId", "Id", ""}

\* names the backend scanners can report: identifiers
BackendNames == {"id", "userId", "Id"}

ValidateArgs ==
    [frontendParams : SeqsUpTo(FrontendNames, MaxParams),
     backendParams : SeqsUpTo(BackendNames, MaxParams)]

ValidateInit ==
    /\ IndexInit
    /\ arg \in ValidateArgs
    /\ res = <<>>

ValidateCall ==
    /\ res = <<>>
    /\ res' = <<validateParams(arg.frontendParams, arg.backendParams)>>
    /\ UNCHANGED <<indexVars, arg>>

SpecValidate == ValidateInit /\ [][ValidateCall]_vars

\* the two lists differ at position i: one has no element there, or the
\* names there are not the same string
DifferAt(F, B, i) ==
    \/ (i <= Len(F)) # (i <= Len(B))
    \/ i <= Len(F) /\ i <= Len(B) /\ F[i] # B[i]

Reported(params, i) == IF i <= Len(params) THEN params[i] ELSE "(missing)"

RECURSIVE DifferencesFrom(_, _, _)
DifferencesFrom(F, B, i) ==
    IF i > Max(Len(F), Len(B)) THEN <<>>
    ELSE (IF DifferAt(F, B, i)
          THEN <<[position |-> i,
                  frontendParam |-> Reported(F, i),
                  backendParam |-> Reported(B, i)]>>
          ELSE <<>>)
             \o DifferencesFrom(F, B, i + 1)

\* C9: validateParams(F, B) is, in increasing position, one record for every
\* position up to the longer length where F and B differ, an absent side
\* reported as (missing); it is empty iff F = B.
C9_ValidateParamsReportsEveryDifference ==
    res # <<>> =>
        /\ res[1] = DifferencesFrom(arg.frontendParams, arg.backendParams, 1)
        /\ (res[1] = <<>>) <=> (arg.frontendParams = arg.backendParams)

\* C9 for names that are not empty
ValidateParamsOnNames ==
    (res # <<>> /\ \A i \in 1..Len(arg.frontendParams) :
                       arg.frontendParams[i] # "") =>
        /\ res[1] = DifferencesFrom(arg.frontendParams, arg.backendParams, 1)
        /\ (res[1] = <<>>) <=> (arg.frontendParams = arg.backendParams)

(***************************************************************************)
(* One rebuild on its own: a single refreshIndex call, nothing overlapping  *)
(* it, on a workspace with more definitions and call sites.                 *)
(***************************************************************************)
MaxAlone == 3

ApiUsers == <<"/","a","p","i","/","u">>

\* a parameterless action and the three controller actions of BackendPool
AloneBackendPool ==
    << [endpoint |-> ApiUsers,
        params |-> <<>>,
        location |-> "N1",
        httpMethod |-> Verb("dotnet", <<"G","e","t">>),
        rawEndpoint |-> ApiUsers] >> \o BackendPool("dotnet")

AloneCall(location) ==
    [endpoint |-> ApiUsers,
     params |-> <<>>,
     location |-> location,
     rawEndpoint |-> ApiUsers,
     httpMethod |-> <<"G","E","T">>]

\* a call that passes k where the calls of FrontendPool pass id
CallWithK ==
    [endpoint |-> ApiU \o <<"{","k","}">>,
     params |-> <<"k">>,
     location |-> "K1",
     rawEndpoint |-> ApiU \o <<"$","{","k","}">>,
     httpMethod |-> <<"G","E","T">>]

\* three parameterless calls of one route, the call sites of FrontendPool
\* and a call of their route with another parameter name
AloneFrontendPool ==
    <<AloneCall("G1"), AloneCall("G2"), AloneCall("G3")>> \o FrontendPool
        \o <<CallWithK>>

AloneScans(pool) ==
    {PickFrom(pool, picked, 1) :
        picked \in {q \in SUBSET (1..Len(pool)) : Cardinality(q) <= MaxAlone}}

AloneArgs ==
    [backendEndpoints : AloneScans(AloneBackendPool),
     frontendEndpoints : AloneScans(AloneFrontendPool)]

AloneInit ==
    /\ IndexInit
    /\ arg \in AloneArgs
    /\ res = <<>>

\* rebuild from its call to its notification (lines 63-162), the scans
\* returning arg and no other handler running at its awaits
AloneRebuild ==
    /\ res = <<>>
    /\ endpoints' = Merge(<<>>, arg.backendEndpoints, arg.frontendEndpoints)
    /\ FireRebuilt(endpoints', arg.backendEndpoints, arg.frontendEndpoints)
    /\ calls' = [calls EXCEPT ![1] = Ended("done")]
    /\ res' = <<"done">>
    /\ UNCHANGED <<active, arg>>

SpecAlone == AloneInit /\ [][AloneRebuild]_vars

\* where in an entry set a backend definition of a location is held
BackendHolders(eps, location) ==
    UNION {{<<i, j>> : j \in {k \in 1..Len(eps[i].backendDefinitions) :
                                 eps[i].backendDefinitions[k].location
                                     = location}} : i \in 1..Len(eps)}

\* where in an entry set a frontend call of a location is held
FrontendHolders(eps, location) ==
    UNION {{<<i, j>> : j \in {k \in 1..Len(eps[i].frontends) :
                                 eps[i].frontends[k].location = location}}
              : i \in 1..Len(eps)}

\* holders is one place, in the entry stored under the key of d
OnceUnderKey(eps, holders, d) ==
    /\ Cardinality(holders) = 1
    /\ \A h \in holders : eps[h[1]].key = KeyOf(d)

ThreeCallsOneDefinition ==
    /\ arg.backendEndpoints = <<AloneBackendPool[1]>>
    /\ arg.frontendEndpoints =
           <<AloneCall("G1"), AloneCall("G2"), AloneCall("G3")>>

\* C11: after a rebuild on its own every backend descriptor of the scan is
\* held exactly once, in the entry of its key, and so is every frontend
\* descriptor; one definition and three calls of one parameterless route give
\* one valid entry with one definition and three frontends.
C11_EveryDescriptorFiledOnce ==
    res # <<>> =>
        /\ \A i \in 1..Len(arg.backendEndpoints) :
               OnceUnderKey(endpoints,
                   BackendHolders(endpoints, arg.backendEndpoints[i].location),
                   arg.backendEndpoints[i])
        /\ \A i \in 1..Len(arg.frontendEndpoints) :
               OnceUnderKey(endpoints,
                   FrontendHolders(endpoints,
                                   arg.frontendEndpoints[i].location),
                   arg.frontendEndpoints[i])
        /\ \A i, j \in 1..Len(endpoints) :
               endpoints[i].key = endpoints[j].key => i = j
        /\ ThreeCallsOneDefinition =>
               /\ Len(endpoints) = 1
               /\ endpoints[1].status = "valid"
               /\ Len(endpoints[1].backendDefinitions) = 1
               /\ Len(endpoints[1].frontends) = 3

\* C11 witness: the rebuild of one definition and three calls has completed
C11_Witness ==
    /\ res # <<>>
    /\ ThreeCallsOneDefinition
    /\ Len(endpoints) = 1
    /\ Len(endpoints[1].frontends) = 3

\* the queries on descriptor d find the entry that holds d in its list
\* (backendDefinitions or frontends, as items selects) and that entry's first
\* backend definition, undefined exactly when it has none
QueryFinds(d, items(_)) ==
    LET found == getEntry(d.endpoint, d.httpMethod)
    IN  /\ found # <<>>
        /\ d.location \in Locations(items(found[1]))
        /\ findBackendForEndpoint(d.endpoint, d.httpMethod) =
               (IF found[1].backendDefinitions = <<>> THEN Undefined
                ELSE found[1].backendDefinitions[1].location)

BackendItems(e) == e.backendDefinitions

FrontendItems(e) == e.frontends

\* paths and methods a provider may query
Queries ==
    {[endpoint |-> d.endpoint, httpMethod |-> m] :
        d \in {AloneBackendPool[i] : i \in 1..Len(AloneBackendPool)},
        m \in {<<"G","E","T">>, <<"g","e","t">>, <<"P","U","T">>,
               <<"D","E","L","E","T","E">>}}

\* C12: while the entry set is the one the last rebuild announced, the
\* queries on every descriptor that rebuild merged find the entry holding it
\* and that entry's first backend definition (undefined exactly when it has
\* none); a query whose key is not in the set returns undefined.
C12_QueriesFindMergedDescriptors ==
    (Rebuilt /\ endpoints = lastFire.entries) =>
        /\ \A i \in 1..Len(lastFire.backendEndpoints) :
               QueryFinds(lastFire.backendEndpoints[i], BackendItems)
        /\ \A i \in 1..Len(lastFire.frontendEndpoints) :
               QueryFinds(lastFire.frontendEndpoints[i], FrontendItems)
        /\ \A q \in Queries :
               (\A i \in 1..Len(endpoints) : endpoints[i].key # KeyOf(q)) =>
                   /\ getEntry(q.endpoint, q.httpMethod) = <<>>
                   /\ findBackendForEndpoint(q.endpoint, q.httpMethod)
                          = Undefined

(***************************************************************************)
(* The scanners' file loops.  A file is ok, unparseable (it reads, the      *)
(* parser rejects it) or unreadable (opening it fails).  File i holds the   *)
(* i-th descriptor of the pool of its side.  A rebuild runs the scanner     *)
(* under study over arg.files; its other scan finds nothing.                *)
(***************************************************************************)
MaxFiles == 3

Faults == {"ok", "unparseable", "unreadable"}

Scanners == {"frontend", "controllers", "fastapi"}

ScanArgs == [scanner : Scanners, files : SeqsUpTo(Faults, MaxFiles)]

FileEndpoints(scanner, i) ==
    IF scanner = "frontend" THEN <<AloneFrontendPool[i]>>
    ELSE <<AloneBackendPool[i]>>

Threw == [threw |-> TRUE, endpoints |-> <<>>]

Returned(fileEndpoints) == [threw |-> FALSE, endpoints |-> fileEndpoints]

\* parseFrontendFileAST: openTextDocument, then parse; either may throw
parseFrontendFileAST(file, i) ==
    IF file = "ok" THEN Returned(FileEndpoints("frontend", i)) ELSE Threw

\* parseFrontendFileRegex: openTextDocument may throw; the patterns find the
\* call in any text
parseFrontendFileRegex(file, i) ==
    IF file = "unreadable" THEN Threw
    ELSE Returned(FileEndpoints("frontend", i))

\* the body of scanFrontendFiles' loop: the catch block calls the regex
\* parser outside any try
scanFrontendFile(file, i) ==
    IF parseFrontendFileAST(file, i).threw
    THEN parseFrontendFileRegex(file, i)
    ELSE parseFrontendFileAST(file, i)

\* parseControllerFile: openTextDocument may throw; text without a
\* controller class gives no endpoints
parseControllerFile(file, i) ==
    CASE file = "unreadable" -> Threw
      [] file = "unparseable" -> Returned(<<>>)
      [] OTHER -> Returned(FileEndpoints("controllers", i))

\* the body of scanContollerPattern's loop: try, catch, log
scanContollerFile(file, i) ==
    IF parseControllerFile(file, i).threw THEN Returned(<<>>)
    ELSE parseControllerFile(file, i)

\* scanPythonFile on a router module included by the entrypoint: a failed
\* read returns, lines that match no decorator give nothing
scanPythonFile(file, i) ==
    IF file = "ok" THEN Returned(FileEndpoints("fastapi", i))
    ELSE Returned(<<>>)

ScanFile(scanner, file, i) ==
    CASE scanner = "frontend" -> scanFrontendFile(file, i)
      [] scanner = "controllers" -> scanContollerFile(file, i)
      [] OTHER -> scanPythonFile(file, i)

ScanInit ==
    /\ IndexInit
    /\ arg \in ScanArgs
    /\ res = <<>>

\* rebuild is called: the Map is cleared and the scanner lists its files
ScanStart ==
    /\ res = <<>>
    /\ endpoints' = <<>>
    /\ res' = <<[pc |-> "scanning", i |-> 1, found |-> <<>>]>>
    /\ UNCHANGED <<fired, calls, active, lastFire, arg>>

\* one iteration of the scanner's file loop
ScanNextFile ==
    /\ res # <<>>
    /\ res[1].pc = "scanning"
    /\ res[1].i <= Len(arg.files)
    /\ LET r == ScanFile(arg.scanner, arg.files[res[1].i], res[1].i)
       IN  IF r.threw
           THEN /\ res' = <<[res[1] EXCEPT !.pc = "threw"]>>
                /\ calls' = [calls EXCEPT ![1] = Ended("threw")]
           ELSE /\ res' = <<[res[1] EXCEPT !.i = @ + 1,
                                           !.found = @ \o r.endpoints]>>
                /\ UNCHANGED calls
    /\ UNCHANGED <<endpoints, fired, active, lastFire, arg>>

\* the scanner returns; rebuild merges and notifies (lines 89-161)
ScanReturns ==
    /\ res # <<>>
    /\ res[1].pc = "scanning"
    /\ res[1].i > Len(arg.files)
    /\ LET b == IF arg.scanner = "frontend" THEN <<>> ELSE res[1].found
           f == IF arg.scanner = "frontend" THEN res[1].found ELSE <<>>
       IN  /\ endpoints' = Merge(endpoints, b, f)
           /\ FireRebuilt(endpoints', b, f)
    /\ res' = <<[res[1] EXCEPT !.pc = "rebuilt"]>>
    /\ calls' = [calls EXCEPT ![1] = Ended("done")]
    /\ UNCHANGED <<active, arg>>

ScanNext == ScanStart \/ ScanNextFile \/ ScanReturns

SpecScan == ScanInit /\ [][ScanNext]_vars

\* the scan never throws, and the rebuild it ends in has notified and holds
\* the descriptor of every file that is ok
FaultsIsolated ==
    res # <<>> =>
        /\ res[1].pc # "threw"
        /\ res[1].pc = "rebuilt" =>
               /\ fired = 1
               /\ \A i \in 1..Len(arg.files) :
                      arg.files[i] = "ok" =>
                          \E k \in 1..Len(endpoints) :
                              FileEndpoints(arg.scanner, i)[1].location \in
                                  Locations(endpoints[k].backendDefinitions)
                                      \cup Locations(endpoints[k].frontends)

\* C13: for each of the three scanners, a file that cannot be read or parsed
\* does not make the scan throw, the descriptors of the other files are
\* still returned, and the rebuild completes and fires its notification.
C13_OneBadFileDoesNotAbortScan == FaultsIsolated

\* C13 for the two backend scanners, and for the frontend scanner on files
\* that can be read
BackendOrReadableFaultsIsolated ==
    (\/ arg.scanner # "frontend"
     \/ \A i \in 1..Len(arg.files) : arg.files[i] # "unreadable")
        => FaultsIsolated

\* <file>.py:<var>: text that ends in .py, the last colon, a variable
WellFormedEntrypoint(e) ==
    \E k \in 1..Len(e) :
        /\ e[k] = ":"
        /\ \A j \in (k + 1)..Len(e) : e[j] # ":"
        /\ k > 3
        /\ SubSeq(e, k - 3, k - 1) = <<".","p","y">>
        /\ k < Len(e)

InvalidConfig(config) ==
    \/ config.backendKind \notin {"dotnet", "fastapi"}
    \/ /\ config.backendKind = "fastapi"
       /\ ~WellFormedEntrypoint(config.fastapiEntrypoint)

\* C14: a refresh that reads an invalid configuration (backend kind missing
\* or unknown, or fastapi with a missing or malformed entrypoint) returns
\* without starting a scan and leaves the entry set and the notification
\* count as they are.
C14_InvalidConfigStartsNoScan ==
    [][\A c \in Calls, config \in Configs :
           (InvalidConfig(config) /\ RefreshIndex(c, TRUE, config)) =>
               /\ calls'[c].pc = "invalidConfig"
               /\ \A d \in Calls : d # c => calls'[d] = calls[d]
               /\ endpoints' = endpoints
               /\ fired' = fired]_vars

\* C14 witness: a refresh has returned on an invalid configuration while
\* the index held entries, and they are still there
C14_Witness ==
    /\ \E c \in Calls : calls[c].pc = "invalidConfig"
    /\ endpoints # <<>>

(***************************************************************************)
(* Frontend extraction of a template-literal path.  A template is its       *)
(* quasis with the expression after each quasi; head holds the quasis that  *)
(* an expression follows, last is the final quasi.  An expression is an     *)
(* identifier, kept as one element of the text.                             *)
(***************************************************************************)
MaxExprs == 2

Quasis ==
    { <<"/","a","p","i","/","u","/">>, <<"/","a","p","i","/","U">>,
      <<"/">>, <<"/","p">>, <<"?","p","=">>, <<>> }

TemplateArgs ==
    [head : SeqsUpTo([quasi : Quasis, name : {"id", "q"}], MaxExprs),
     last : Quasis]

\* the loop of processTemplateLiteral over the quasis that an expression
\* follows (lines 484-506)
RECURSIVE TemplateFrom(_, _, _)
TemplateFrom(head, i, acc) ==
    IF i > Len(head) THEN acc
    ELSE LET quasiValue == head[i].quasi
             paramName == head[i].name
             isRouteParam == endsWith(quasiValue, <<"/">>)
         IN  TemplateFrom(head, i + 1,
                 [raw |-> acc.raw \o quasiValue
                              \o <<"$","{">> \o <<paramName>> \o <<"}">>,
                  normalized |->
                      acc.normalized \o quasiValue \o
                          (IF isRouteParam
                           THEN <<"{">> \o <<paramName>> \o <<"}">>
                           ELSE <<>>),
                  params |-> IF isRouteParam
                             THEN Append(acc.params, paramName)
                             ELSE acc.params])

processTemplateLiteral(node) ==
    LET looped == TemplateFrom(node.head, 1,
                      [raw |-> <<>>, normalized |-> <<>>, params |-> <<>>])
    IN  [raw |-> looped.raw \o node.last,
         normalized |-> StripQuery(looped.normalized \o node.last),
         params |-> looped.params]

\* the matches of /\$\{([^}]+)\}/g from position i on: their first groups
RECURSIVE DollarGroupsFrom(_, _)
DollarGroupsFrom(s, i) ==
    IF i > Len(s) THEN <<>>
    ELSE LET close == indexOf(s, "}", i + 2)
         IN  IF /\ s[i] = "$"
                /\ i < Len(s)
                /\ s[i + 1] = "{"
                /\ close >= i + 3
             THEN <<SubSeq(s, i + 2, close - 1)>>
                      \o DollarGroupsFrom(s, close + 1)
             ELSE DollarGroupsFrom(s, i + 1)

\* replace(/\$\{([^}]+)\}/g, '{$1}') from position i on
RECURSIVE DollarToBraceFrom(_, _)
DollarToBraceFrom(s, i) ==
    IF i > Len(s) THEN <<>>
    ELSE LET close == indexOf(s, "}", i + 2)
         IN  IF /\ s[i] = "$"
                /\ i < Len(s)
                /\ s[i + 1] = "{"
                /\ close >= i + 3
             THEN <<"{">> \o SubSeq(s, i + 2, close - 1) \o <<"}">>
                      \o DollarToBraceFrom(s, close + 1)
             ELSE <<s[i]>> \o DollarToBraceFrom(s, i + 1)

\* the text of a first group as a parameter name: an identifier is one
\* element
GroupName(group) == IF Len(group) = 1 THEN group[1] ELSE "(text)"

processEndpointString(rawEndpoint) ==
    LET groups == DollarGroupsFrom(rawEndpoint, 1)
    IN  [normalized |-> DollarToBraceFrom(rawEndpoint, 1),
         params |-> [k \in 1..Len(groups) |-> GroupName(groups[k])]]

TemplateInit ==
    /\ IndexInit
    /\ arg \in TemplateArgs
    /\ res = <<>>

\* the tree strategy on the template, and the pattern strategy on the same
\* text when the file does not parse
TemplateCall ==
    /\ res = <<>>
    /\ res' = << [tree |-> processTemplateLiteral(arg),
                  pattern |->
                      processEndpointString(processTemplateLiteral(arg).raw)] >>
    /\ UNCHANGED <<indexVars, arg>>

SpecTemplate == TemplateInit /\ [][TemplateCall]_vars

\* the names of the interpolations that follow a quasi ending in /
RECURSIVE RouteNames(_, _)
RouteNames(head, i) ==
    IF i > Len(head) THEN <<>>
    ELSE (IF head[i].quasi # <<>> /\ head[i].quasi[Len(head[i].quasi)] = "/"
          THEN <<head[i].name>> ELSE <<>>) \o RouteNames(head, i + 1)

\* the literal text with {name} for those interpolations and nothing for
\* the others
RECURSIVE RouteText(_, _)
RouteText(head, i) ==
    IF i > Len(head) THEN <<>>
    ELSE head[i].quasi \o
         (IF head[i].quasi # <<>> /\ head[i].quasi[Len(head[i].quasi)] = "/"
          THEN <<"{", head[i].name, "}">> ELSE <<>>) \o RouteText(head, i + 1)

\* text up to, not including, its first ?
BeforeQuery(text) ==
    IF \E k \in 1..Len(text) : text[k] = "?"
    THEN SubSeq(text, 1, (CHOOSE k \in 1..Len(text) :
                             /\ text[k] = "?"
                             /\ \A j \in 1..(k - 1) : text[j] # "?") - 1)
    ELSE text

AsClaimed(extracted) ==
    /\ extracted.params = RouteNames(arg.head, 1)
    /\ extracted.normalized = BeforeQuery(RouteText(arg.head, 1) \o arg.last)

\* C15: of a template-literal path, params holds in order the names of the
\* interpolations whose preceding literal segment ends with /, endpoint
\* holds the literal text with {name} for those and nothing for the others,
\* cut at the first ?; in both extraction strategies.
C15_RouteParamsFollowSlash ==
    res # <<>> => AsClaimed(res[1].tree) /\ AsClaimed(res[1].pattern)

\* C15 for the tree strategy
TreeRouteParamsFollowSlash ==
    res # <<>> => AsClaimed(res[1].tree)

(***************************************************************************)
(* The tree strategy on one call expression.  Nodes are records with the    *)
(* fields of the syntax tree that the code reads.  Text that the code       *)
(* inspects (paths, method names) is a sequence of characters; identifier   *)
(* names that it only compares are strings.                                 *)
(***************************************************************************)
Identifier(name) == [type |-> "Identifier", name |-> name]

Literal(value) == [type |-> "Literal", value |-> value]

TemplateLiteral(head, last) ==
    [type |-> "TemplateLiteral", head |-> head, last |-> last]

\* a + chain, by its operands from left to right
BinaryExpression(operands) ==
    [type |-> "BinaryExpression", operator |-> "+", operands |-> operands]

MemberExpression(object, property) ==
    [type |-> "MemberExpression", object |-> object, property |-> property]

Property(key, value) ==
    [type |-> "Property", key |-> Identifier(key), value |-> value]

ObjectExpression(properties) ==
    [type |-> "ObjectExpression", properties |-> properties]

NewExpression(callee, arguments) ==
    [type |-> "NewExpression", callee |-> callee, arguments |-> arguments]

CallExpression(callee, arguments) ==
    [type |-> "CallExpression", callee |-> callee, arguments |-> arguments]

\* arguments[i], 1-based; a node of type undefined when there is none
ArgumentAt(arguments, i) ==
    IF i <= Len(arguments) THEN arguments[i] ELSE [type |-> "undefined"]

startsWith(s, prefix) ==
    /\ Len(s) >= Len(prefix)
    /\ SubSeq(s, 1, Len(prefix)) = prefix

IsApiPath(raw) ==
    \/ startsWith(raw, <<"/","a","p","i","/">>)
    \/ startsWith(raw, <<"a","p","i","/">>)

LeadingSlash(path) == IF startsWith(path, <<"/">>) THEN path ELSE <<"/">> \o path

\* traverse of processBinaryExpression over the operands
RECURSIVE TraverseFrom(_, _, _)
TraverseFrom(operands, i, acc) ==
    IF i > Len(operands) THEN acc
    ELSE TraverseFrom(operands, i + 1,
             CASE operands[i].type = "Literal" ->
                      [acc EXCEPT !.parts = @ \o operands[i].value]
               [] operands[i].type = "Identifier" ->
                      [parts |-> acc.parts \o <<"{", operands[i].name, "}">>,
                       params |-> Append(acc.params, operands[i].name)]
               [] OTHER -> acc)

processBinaryExpression(node) ==
    LET traversed == TraverseFrom(node.operands, 1,
                         [parts |-> <<>>, params |-> <<>>])
    IN  [raw |-> traversed.parts,
         normalized |-> traversed.parts,
         params |-> traversed.params,
         httpMethod |-> <<"G","E","T">>]

\* extractFromArgument: the extracted endpoint in a one-element sequence,
\* or <<>> for null
extractFromArgument(node) ==
    CASE node.type = "Literal" /\ IsApiPath(node.value) ->
             << [raw |-> node.value,
                 normalized |-> LeadingSlash(node.value),
                 params |-> <<>>,
                 httpMethod |-> <<"G","E","T">>] >>
      [] node.type = "TemplateLiteral"
             /\ IsApiPath(processTemplateLiteral(node).raw) ->
             << [raw |-> processTemplateLiteral(node).raw,
                 normalized |->
                     LeadingSlash(processTemplateLiteral(node).normalized),
                 params |-> processTemplateLiteral(node).params,
                 httpMethod |-> <<"G","E","T">>] >>
      [] node.type = "BinaryExpression"
             /\ IsApiPath(processBinaryExpression(node).raw) ->
             << [processBinaryExpression(node) EXCEPT
                     !.normalized = LeadingSlash(@)] >>
      [] OTHER -> <<>>

\* properties.find(p => p.key.name === name): the property in a one-element
\* sequence, or <<>>
RECURSIVE FindProperty(_, _)
FindProperty(properties, name) ==
    IF properties = <<>> THEN <<>>
    ELSE IF Head(properties).key.name = name THEN <<Head(properties)>>
    ELSE FindProperty(Tail(properties), name)

\* the result with the method of the options object's string-literal method
\* property, when there is one
WithMethodOf(result, options) ==
    IF result = <<>> \/ options.type # "ObjectExpression" THEN result
    ELSE LET methodProp == FindProperty(options.properties, "method")
         IN  IF methodProp # <<>> /\ methodProp[1].value.type = "Literal"
             THEN << [result[1] EXCEPT !.httpMethod =
                          toUpperCase(methodProp[1].value.value)] >>
             ELSE result

AxiosMethods ==
    { <<"g","e","t">>, <<"p","o","s","t">>, <<"p","u","t">>,
      <<"d","e","l","e","t","e">>, <<"p","a","t","c","h">>,
      <<"h","e","a","d">>, <<"o","p","t","i","o","n","s">> }

\* extractEndpointFromNode (lines 326-408), branch by branch in its order
extractEndpointFromNode(node) ==
    LET callee == node.callee
        first == ArgumentAt(node.arguments, 1)
    IN  IF node.type # "CallExpression" THEN <<>>
        ELSE IF callee.type = "Identifier" /\ callee.name = "fetch"
        THEN WithMethodOf(extractFromArgument(first),
                          ArgumentAt(node.arguments, 2))
        ELSE IF /\ callee.type = "MemberExpression"
                /\ callee.object.type = "Identifier"
                /\ callee.object.name = "axios"
                /\ callee.property.type = "Identifier"
                /\ callee.property.name \in AxiosMethods
        THEN IF extractFromArgument(first) = <<>> THEN <<>>
             ELSE << [extractFromArgument(first)[1] EXCEPT !.httpMethod =
                          toUpperCase(callee.property.name)] >>
        ELSE IF /\ callee.type = "MemberExpression"
                /\ callee.object.type = "Identifier"
                /\ callee.object.name = "axios"
                /\ first.type = "ObjectExpression"
                /\ FindProperty(first.properties, "url") # <<>>
        THEN WithMethodOf(
                 extractFromArgument(
                     FindProperty(first.properties, "url")[1].value),
                 first)
        ELSE IF /\ callee.type = "Identifier"
                /\ callee.name = "fetch"
                /\ first.type = "NewExpression"
                /\ first.callee.type = "Identifier"
                /\ first.callee.name = "Request"
        THEN extractFromArgument(ArgumentAt(first.arguments, 1))
        ELSE <<>>

\* path arguments: two literals under api, one elsewhere, a template and a
\* concatenation
PathNodes ==
    { Literal(<<"/","a","p","i","/","x">>),
      Literal(<<"a","p","i","/","x">>),
      Literal(<<"/","o","t","h","e","r">>),
      TemplateLiteral(<<[quasi |-> <<"/","a","p","i","/","u","/">>,
                         name |-> "id"]>>, <<>>),
      BinaryExpression(<<Literal(<<"/","a","p","i","/","u","/">>),
                         Identifier("id")>>) }

\* the value of a method property: none, a string literal, a variable
MethodNodes ==
    { [type |-> "undefined"],
      Literal(<<"p","o","s","t">>),
      Literal(<<"P","U","T">>),
      Identifier("verb") }

CallShapes ==
    {"fetch", "axios.post", "axios.request", "axios", "fetchRequest", "other"}

MethodProperties(method) ==
    IF method.type = "undefined" THEN <<>> ELSE <<Property("method", method)>>

ConfigObject(path, method) ==
    ObjectExpression(<<Property("url", path)>> \o MethodProperties(method))

\* the call expression of a shape
CallNode(shape, path, method) ==
    CASE shape = "fetch" ->
             CallExpression(Identifier("fetch"),
                 IF method.type = "undefined" THEN <<path>>
                 ELSE <<path, ObjectExpression(MethodProperties(method))>>)
      [] shape = "axios.post" ->
             CallExpression(
                 MemberExpression(Identifier("axios"),
                                  Identifier(<<"p","o","s","t">>)),
                 <<path>>)
      [] shape = "axios.request" ->
             CallExpression(
                 MemberExpression(Identifier("axios"),
                     Identifier(<<"r","e","q","u","e","s","t">>)),
                 <<ConfigObject(path, method)>>)
      [] shape = "axios" ->
             CallExpression(Identifier("axios"),
                            <<ConfigObject(path, method)>>)
      [] shape = "fetchRequest" ->
             CallExpression(Identifier("fetch"),
                 <<NewExpression(Identifier("Request"), <<path>>)>>)
      [] OTHER -> CallExpression(Identifier("get"), <<path>>)

ExtractArgs == [shape : CallShapes, path : PathNodes, method : MethodNodes]

ExtractInit ==
    /\ IndexInit
    /\ arg \in ExtractArgs
    /\ res = <<>>

\* walkNode's callback on the call expression (lines 288-307)
ExtractCall ==
    /\ res = <<>>
    /\ res' = <<extractEndpointFromNode(
                    CallNode(arg.shape, arg.path, arg.method))>>
    /\ UNCHANGED <<indexVars, arg>>

SpecExtract == ExtractInit /\ [][ExtractCall]_vars

\* the call was extracted with the path of its path argument and method m
ExtractedAs(m) ==
    /\ res[1] # <<>>
    /\ res[1][1].normalized = extractFromArgument(arg.path)[1].normalized
    /\ res[1][1].httpMethod = m

\* the method a config object states: its string literal upper-cased, or GET
ConfigMethod ==
    IF arg.method.type = "Literal" THEN toUpperCase(arg.method.value)
    ELSE <<"G","E","T">>

\* C16: fetch(new Request(path)) with a literal, template or concatenation
\* under /api/ or api/ is extracted with that path and method GET.
C16_FetchRequestRecognized ==
    (/\ res # <<>>
     /\ arg.shape = "fetchRequest"
     /\ extractFromArgument(arg.path) # <<>>) => ExtractedAs(<<"G","E","T">>)

\* C17: the client called directly with a config object, axios({url,
\* method}), is extracted with the path of url and the upper-cased
\* string-literal method, or GET when there is none.
C17_ClientConfigCallRecognized ==
    (/\ res # <<>>
     /\ arg.shape = "axios"
     /\ extractFromArgument(arg.path) # <<>>) => ExtractedAs(ConfigMethod)

\* the other shapes: fetch with or without options, axios.post, and a config
\* object passed to a method of axios
OtherShapesRecognized ==
    (res # <<>> /\ extractFromArgument(arg.path) # <<>>) =>
        /\ arg.shape \in {"fetch", "axios.request"} => ExtractedAs(ConfigMethod)
        /\ arg.shape = "axios.post" => ExtractedAs(<<"P","O","S","T">>)

HttpVerbs ==
    { <<"G","E","T">>, <<"P","O","S","T">>, <<"P","U","T">>,
      <<"D","E","L","E","T","E">>, <<"P","A","T","C","H">>,
      <<"H","E","A","D">>, <<"O","P","T","I","O","N","S">> }

\* C18: every entry that getAllEndpoints returns has an upper-case HTTP verb
\* as its httpMethod, whichever scanner seeded it.
C18_EntryMethodsUpperCase ==
    \A i \in 1..Len(getAllEndpoints) :
        getAllEndpoints[i].httpMethod \in HttpVerbs

\* C18 for the entries seeded by the decorator scanner or by a frontend call
DecoratorAndFrontendMethodsUpperCase ==
    \A i \in 1..Len(getAllEndpoints) :
        getAllEndpoints[i].backend \in {Undefined, "P1"} =>
            getAllEndpoints[i].httpMethod \in HttpVerbs

(***************************************************************************)
(* The attribute-style backend scanner: route building.                     *)
(***************************************************************************)
\* replace every occurrence of pattern, in the letter case written, for
\* comparison
RECURSIVE ReplaceAllFrom(_, _, _, _)
ReplaceAllFrom(s, pattern, replacement, i) ==
    IF i > Len(s) THEN <<>>
    ELSE IF /\ i + Len(pattern) - 1 <= Len(s)
            /\ SubSeq(s, i, i + Len(pattern) - 1) = pattern
    THEN replacement \o ReplaceAllFrom(s, pattern, replacement,
                                       i + Len(pattern))
    ELSE <<s[i]>> \o ReplaceAllFrom(s, pattern, replacement, i + 1)

\* s.replace(/pattern/gi, replacement) for a literal lower-case pattern,
\* from position i on
RECURSIVE ReplaceAllIgnoreCaseFrom(_, _, _, _)
ReplaceAllIgnoreCaseFrom(s, pattern, replacement, i) ==
    IF i > Len(s) THEN <<>>
    ELSE IF /\ i + Len(pattern) - 1 <= Len(s)
            /\ toLowerCase(SubSeq(s, i, i + Len(pattern) - 1)) = pattern
    THEN replacement \o ReplaceAllIgnoreCaseFrom(s, pattern, replacement,
                                                 i + Len(pattern))
    ELSE <<s[i]>> \o ReplaceAllIgnoreCaseFrom(s, pattern, replacement, i + 1)

ControllerPlaceholder == <<"[","c","o","n","t","r","o","l","l","e","r","]">>

ActionPlaceholder == <<"[","a","c","t","i","o","n","]">>

\* the two placeholder replacements (lines 261-266 and 277-280); an action
\* name that was not found is empty
ResolvePlaceholders(route, controllerName, actionName) ==
    LET resolved == ReplaceAllIgnoreCaseFrom(route, ControllerPlaceholder,
                        toLowerCase(controllerName), 1)
    IN  IF actionName # <<>>
        THEN ReplaceAllIgnoreCaseFrom(resolved, ActionPlaceholder,
                                      toLowerCase(actionName), 1)
        ELSE resolved

\* route.replace(/\/+/g, '/')
RECURSIVE CollapseSlashes(_)
CollapseSlashes(s) ==
    IF Len(s) < 2 THEN s
    ELSE IF s[1] = "/" /\ s[2] = "/" THEN CollapseSlashes(Tail(s))
    ELSE <<s[1]>> \o CollapseSlashes(Tail(s))

\* lines 268-285: class route with a leading slash, joined to the method
\* route
JoinRoutes(classRoute, methodRoute, controllerName, actionName) ==
    LET resolved == ResolvePlaceholders(classRoute, controllerName, actionName)
        route == IF resolved # <<>> /\ ~startsWith(resolved, <<"/">>)
                 THEN <<"/">> \o resolved ELSE resolved
        processedMethodRoute ==
            ResolvePlaceholders(methodRoute, controllerName, actionName)
    IN  IF methodRoute = <<>> THEN route
        ELSE (IF /\ route # <<>>
                 /\ ~endsWith(route, <<"/">>)
                 /\ processedMethodRoute # <<>>
                 /\ ~startsWith(processedMethodRoute, <<"/">>)
              THEN route \o <<"/">> ELSE route) \o processedMethodRoute

\* lines 287-300: the /api prefix
EnsureApi(route, classRoute) ==
    IF route = <<>> THEN <<"/","a","p","i">>
    ELSE IF /\ ~startsWith(toLowerCase(route), <<"/","a","p","i">>)
            /\ ~startsWith(toLowerCase(route), <<"a","p","i">>)
    THEN IF startsWith(toLowerCase(classRoute), <<"a","p","i">>)
         THEN <<"/">> \o Tail(route)
         ELSE <<"/","a","p","i">> \o route
    ELSE route

buildFullEndpoint(classRoute, methodRoute, controllerName, actionName) ==
    LET route == CollapseSlashes(
                     EnsureApi(JoinRoutes(classRoute, methodRoute,
                                          controllerName, actionName),
                               classRoute))
    IN  IF Len(route) > 1 /\ endsWith(route, <<"/">>)
        THEN SubSeq(route, 1, Len(route) - 1)
        ELSE route

ApiControllerRoute ==
    <<"a","p","i","/","[","c","o","n","t","r","o","l","l","e","r","]">>

ApiControllerRouteUpper ==
    <<"a","p","i","/","[","C","o","n","t","r","o","l","l","e","r","]">>

ClassRoutes ==
    { ApiControllerRoute, ApiControllerRouteUpper,
      <<"/">> \o ApiControllerRoute \o <<"/">>,
      ControllerPlaceholder,
      <<>> }

MethodRoutes ==
    { <<>>, <<"{","i","d","}">>, <<"/","{","i","d","}">>, <<"l","i","s","t","/">>,
      <<"[","a","c","t","i","o","n","]">>, <<"{","i","d","}","/","p">>,
      <<"a","p","i","/","x">> }

ControllerNames == { <<"U","s","e","r","s">>, <<"u">>, <<"A","p","i","K","e","y","s">> }

ActionNames == { <<>>, <<"G","e","t","A","l","l">> }

BuildArgs ==
    [classRoute : ClassRoutes, methodRoute : MethodRoutes,
     controllerName : ControllerNames, actionName : ActionNames]

BuildInit ==
    /\ IndexInit
    /\ arg \in BuildArgs
    /\ res = <<>>

\* findMethodEndpoints builds the route of one action (lines 213-218)
BuildCall ==
    /\ res = <<>>
    /\ res' = <<buildFullEndpoint(arg.classRoute, arg.methodRoute,
                                  arg.controllerName, arg.actionName)>>
    /\ UNCHANGED <<indexVars, arg>>

SpecBuild == BuildInit /\ [][BuildCall]_vars

\* the class route is api/[controller] in some letter case of the
\* placeholder, and the method route is not empty
PlaceholderRouteCase ==
    /\ res # <<>>
    /\ arg.classRoute \in {ApiControllerRoute, ApiControllerRouteUpper}
    /\ arg.methodRoute # <<>>

\* /api/<lowercase N> and m joined with exactly one /
ControllerRoute ==
    <<"/","a","p","i","/">> \o toLowerCase(arg.controllerName)
        \o (IF startsWith(arg.methodRoute, <<"/">>) THEN <<>> ELSE <<"/">>)
        \o arg.methodRoute

\* a method route without a placeholder of its own, without a slash at its
\* end and without two slashes in a row
PlainMethodRoute ==
    /\ ~endsWith(arg.methodRoute, <<"/">>)
    /\ \A i \in 1..Len(arg.methodRoute) : arg.methodRoute[i] # "["
    /\ \A i \in 1..(Len(arg.methodRoute) - 1) :
           ~(arg.methodRoute[i] = "/" /\ arg.methodRoute[i + 1] = "/")

\* C19 as stated: for class route api/[controller] or api/[Controller],
\* controller name N and any non-empty method route m, buildFullEndpoint
\* gives /api/<lowercase N>/<m>.
C19_AnyMethodRouteAppended ==
    PlaceholderRouteCase => res[1] = ControllerRoute

\* C19: for class route api/[controller] or api/[Controller], controller
\* name N and a non-empty method route m that holds no placeholder, does
\* not end with a slash and has no two slashes in a row, buildFullEndpoint
\* gives /api/<lowercase N> and m joined with exactly one /.
C19_PlainMethodRouteAppended ==
    (PlaceholderRouteCase /\ PlainMethodRoute) => res[1] = ControllerRoute

\* C19 witness: api/[Controller], UsersController and {id} gave
\* /api/users/{id}
C19_Witness ==
    /\ res = <<<<"/","a","p","i","/","u","s","e","r","s","/","{","i","d","}">>>>
    /\ arg.classRoute = ApiControllerRouteUpper
    /\ arg.controllerName = <<"U","s","e","r","s">>
    /\ arg.methodRoute = <<"{","i","d","}">>

(***************************************************************************)
(* Route constraint stripping in the two backend scanners.                  *)
(***************************************************************************)
MaxRoute == 5

\* [a-zA-Z_] and [a-zA-Z0-9_], on the letters the routes below use
NameStart == {"a", "_"}

NameChars == NameStart \cup {"1"}

\* the end of the longest run of characters of set that starts at i: the
\* position after it
RECURSIVE RunEnd(_, _, _)
RunEnd(s, i, set) ==
    IF i <= Len(s) /\ s[i] \in set THEN RunEnd(s, i + 1, set) ELSE i

\* a replacement that keeps a constraint but for its last character, for
\* comparison
ShortenConstraint(stars, name, constraint, optional) ==
    <<"{">> \o stars \o name
        \o (IF Len(constraint) > 2
            THEN SubSeq(constraint, 1, Len(constraint) - 1) ELSE <<>>)
        \o optional \o <<"}">>

\* the replacement '{$1$2$3}' (attribute style) or '{$1}' (decorator
\* style, where stars and optional are empty); the constraint is dropped
StripConstraint(stars, name, constraint, optional) ==
    <<"{">> \o stars \o name \o optional \o <<"}">>

NoMatch == [end |-> 0, text |-> <<>>]

\* the character of s at position i, "" past the end
RouteCharAt(s, i) == IF i \in 1..Len(s) THEN s[i] ELSE ""

\* /\{(\*{0,2})([a-zA-Z_][a-zA-Z0-9_]*)(?::[^}?]+)?(\?)?\}/ tried at
\* position i: the position of the closing brace and the replacement text,
\* or NoMatch
AttributeMatch(s, i) ==
    LET n == RunEnd(s, i + 1, {"*"})             \* name starts here
        j == RunEnd(s, n, NameChars)             \* name ends before here
        e == IF RouteCharAt(s, j) = ":"
             THEN RunEnd(s, j + 1, {s[k] : k \in 1..Len(s)} \ {"}", "?"})
             ELSE j                              \* constraint ends before
        q == IF RouteCharAt(s, e) = "?" THEN e + 1 ELSE e
    IN  IF /\ s[i] = "{"
           /\ n - (i + 1) <= 2
           /\ RouteCharAt(s, n) \in NameStart
           /\ (RouteCharAt(s, j) = ":" => e > j + 1)
           /\ RouteCharAt(s, q) = "}"
        THEN [end |-> q,
              text |-> StripConstraint(SubSeq(s, i + 1, n - 1),
                                       SubSeq(s, n, j - 1),
                                       SubSeq(s, j, e - 1),
                                       SubSeq(s, e, q - 1))]
        ELSE NoMatch

\* /\{([a-zA-Z_][a-zA-Z0-9_]*)(?::[^}]+)?\}/ tried at position i
DecoratorMatch(s, i) ==
    LET n == i + 1
        j == RunEnd(s, n, NameChars)
        e == IF RouteCharAt(s, j) = ":"
             THEN RunEnd(s, j + 1, {s[k] : k \in 1..Len(s)} \ {"}"})
             ELSE j
    IN  IF /\ s[i] = "{"
           /\ RouteCharAt(s, n) \in NameStart
           /\ (RouteCharAt(s, j) = ":" => e > j + 1)
           /\ RouteCharAt(s, e) = "}"
        THEN [end |-> e,
              text |-> StripConstraint(<<>>, SubSeq(s, n, j - 1),
                                       SubSeq(s, j, e - 1), <<>>)]
        ELSE NoMatch

\* the pattern of one scanner's normalizeEndpoint tried at position i
RouteMatch(s, i, style) ==
    IF style = "attribute" THEN AttributeMatch(s, i) ELSE DecoratorMatch(s, i)

\* endpoint.replace(pattern, replacement) with the g flag, from position i
RECURSIVE ReplaceMatchesFrom(_, _, _)
ReplaceMatchesFrom(s, i, style) ==
    IF i > Len(s) THEN <<>>
    ELSE IF RouteMatch(s, i, style).end # 0
    THEN RouteMatch(s, i, style).text
             \o ReplaceMatchesFrom(s, RouteMatch(s, i, style).end + 1, style)
    ELSE <<s[i]>> \o ReplaceMatchesFrom(s, i + 1, style)

\* normalizeEndpoint of the attribute-style scanner (lines 361-368)
normalizeEndpointAttribute(endpoint) ==
    ReplaceMatchesFrom(endpoint, 1, "attribute")

\* normalizeEndpoint of the decorator-style scanner (lines 752-757)
normalizeEndpointDecorator(endpoint) ==
    ReplaceMatchesFrom(endpoint, 1, "decorator")

\* routes with compound constraints, optional and catch-all markers, and
\* nested or unbalanced braces
LongRoutes ==
    { <<"{","a",":","a",":","a","}">>,
      <<"{","a",":","a","a","}">>,
      <<"{","a",":","?","a","}">>,
      <<"{","*","*","*","a","}">>,
      <<"{","*","*","a",":","a","?","}">>,
      <<"{","a",":","a","?","}","{","*","a","}">>,
      <<"{","a",":","{","a",":","a","}","}">>,
      <<"{","a","{","a",":","a","?","}">>,
      <<"{","a",":","a","?","{","a",":","a","}">>,
      <<"/","{","a","1",":","a","(","1",")","}","/","{","_","?","}">> }

RouteArgs ==
    SeqsUpTo({"{", "}", ":", "?", "*", "a"}, MaxRoute) \cup LongRoutes

RouteInit ==
    /\ IndexInit
    /\ arg \in RouteArgs
    /\ res = <<>>

\* each scanner normalizes the route, then its own result
RouteCall ==
    /\ res = <<>>
    /\ res' = << [attribute |-> normalizeEndpointAttribute(arg),
                  attributeAgain |->
                      normalizeEndpointAttribute(
                          normalizeEndpointAttribute(arg)),
                  decorator |-> normalizeEndpointDecorator(arg),
                  decoratorAgain |->
                      normalizeEndpointDecorator(
                          normalizeEndpointDecorator(arg))] >>
    /\ UNCHANGED <<indexVars, arg>>

SpecRoute == RouteInit /\ [][RouteCall]_vars

\* C20: in both backend scanners normalizeEndpoint applied to its own result
\* returns that result, for every route, compound constraints, optional and
\* catch-all markers included.
C20_ConstraintStrippingIdempotent ==
    res # <<>> =>
        /\ res[1].attributeAgain = res[1].attribute
        /\ res[1].decoratorAgain = res[1].decorator

\* C20 witness: a catch-all optional parameter with a constraint was
\* stripped by one scanner and a compound constraint by both
C20_Witness ==
    \/ /\ arg = <<"{","*","*","a",":","a","?","}">>
       /\ res # <<>>
       /\ res[1].attribute = <<"{","*","*","a","?","}">>
    \/ /\ arg = <<"{","a",":","a",":","a","}">>
       /\ res # <<>>
       /\ res[1].attribute = <<"{","a","}">>
       /\ res[1].decorator = <<"{","a","}">>

(***************************************************************************)
(* The point query of the hover and definition providers against the bulk   *)
(* per-file extraction.  A document is its call sites in source order, each *)
(* with the 1-based line of its path argument, and whether the text parses. *)
(* The i-th site's path argument opens at column 10 * i, so sites that      *)
(* share a line do not overlap.                                             *)
(***************************************************************************)
MaxSites == 2

DocLines == {1, 2}

DocPaths ==
    { Literal(<<"/","a","p","i","/","x">>),
      Literal(<<"a","p","i","/","x">>),
      TemplateLiteral(<<[quasi |-> <<"/","a","p","i","/","u","/">>,
                         name |-> "i"]>>, <<>>) }

NoMethod == [type |-> "undefined"]

\* calls of the shapes the scanners look for, and one of another function
DocNodes ==
    [shape : {"fetch"}, path : DocPaths,
     method : {NoMethod, Literal(<<"p","o","s","t">>)}]
    \cup [shape : {"axios.post"}, path : DocPaths, method : {NoMethod}]
    \cup [shape : {"axios"}, path : {Literal(<<"/","a","p","i","/","x">>)},
          method : {Literal(<<"P","U","T">>)}]
    \cup [shape : {"other"}, path : {Literal(<<"/","a","p","i","/","x">>)},
          method : {NoMethod}]

Documents ==
    [parses : BOOLEAN,
     sites : { sites \in SeqsUpTo([node : DocNodes, line : DocLines],
                                  MaxSites) :
                   /\ sites # <<>>
                   /\ \A i \in 1..(Len(sites) - 1) :
                          sites[i].line <= sites[i + 1].line }]

\* arg.loc.start.column of the i-th site's path argument
ColumnOf(i) == 10 * i

\* cursor positions: line 0-based, character on, between and after sites
Positions == [line : {0, 1}, character : {10, 11, 19, 21}]

NodeOf(site) == CallNode(site.node.shape, site.node.path, site.node.method)

\* walkNode with the callback of parseFrontendFileAST (lines 288-307): one
\* descriptor for each call that extractEndpointFromNode recognizes
RECURSIVE WalkFrom(_, _)
WalkFrom(sites, i) ==
    IF i > Len(sites) THEN <<>>
    ELSE LET endpoint == extractEndpointFromNode(NodeOf(sites[i]))
         IN  (IF endpoint = <<>> THEN <<>>
              ELSE << [endpoint |-> endpoint[1].normalized,
                       params |-> endpoint[1].params,
                       line |-> sites[i].line - 1,
                       rawEndpoint |-> endpoint[1].raw,
                       httpMethod |-> endpoint[1].httpMethod] >>)
             \o WalkFrom(sites, i + 1)

\* the text between the quotes that open a call's first argument; <<>> when
\* the argument does not open with a quote
QuotedText(path) ==
    CASE path.type = "Literal" -> <<path.value>>
      [] path.type = "TemplateLiteral" -> <<processTemplateLiteral(path).raw>>
      [] path.type = "BinaryExpression"
             /\ path.operands[1].type = "Literal" -> <<path.operands[1].value>>
      [] OTHER -> <<>>

\* group 1 of /fetch\s*\(\s*["'`](\/api\/[^"'`]+)["'`]/ on the text of a
\* call, with the default method; <<>> when the pattern does not match
FetchPattern(node) ==
    LET first == ArgumentAt(node.arguments, 1)
    IN  IF /\ node.callee.type = "Identifier"
           /\ node.callee.name = "fetch"
           /\ QuotedText(first) # <<>>
           /\ startsWith(QuotedText(first)[1], <<"/","a","p","i","/">>)
           /\ Len(QuotedText(first)[1]) > 5
        THEN << [raw |-> QuotedText(first)[1],
                 httpMethod |-> <<"G","E","T">>] >>
        ELSE <<>>

\* groups 2 and 1 of
\* /axios\s*\.\s*(get|post|put|delete|patch)\s*\(\s*["'`](\/api\/[^"'`]+)["'`]/gi
AxiosPattern(node) ==
    LET first == ArgumentAt(node.arguments, 1)
    IN  IF /\ node.callee.type = "MemberExpression"
           /\ node.callee.object.name = "axios"
           /\ toLowerCase(node.callee.property.name) \in
                  AxiosMethods \ { <<"h","e","a","d">>,
                                   <<"o","p","t","i","o","n","s">> }
           /\ QuotedText(first) # <<>>
           /\ startsWith(QuotedText(first)[1], <<"/","a","p","i","/">>)
           /\ Len(QuotedText(first)[1]) > 5
        THEN << [raw |-> QuotedText(first)[1],
                 httpMethod |-> toUpperCase(node.callee.property.name)] >>
        ELSE <<>>

PatternOn(pattern, node) ==
    IF pattern = "fetch" THEN FetchPattern(node) ELSE AxiosPattern(node)

\* the matches of one pattern on one line (0-based), from site i on: the
\* exec loop of lines 627-643 and 743-757
RECURSIVE MatchesFrom(_, _, _, _)
MatchesFrom(sites, line, pattern, i) ==
    IF i > Len(sites) THEN <<>>
    ELSE (IF /\ sites[i].line - 1 = line
             /\ PatternOn(pattern, NodeOf(sites[i])) # <<>>
          THEN << [raw |-> PatternOn(pattern, NodeOf(sites[i]))[1].raw,
                   httpMethod |->
                       PatternOn(pattern, NodeOf(sites[i]))[1].httpMethod,
                   endpointStart |-> ColumnOf(i) + 1] >>
          ELSE <<>>)
         \o MatchesFrom(sites, line, pattern, i + 1)

\* the matches on a line in the order of the two loops: pattern, then match
LineMatches(sites, line) ==
    MatchesFrom(sites, line, "fetch", 1) \o MatchesFrom(sites, line, "axios", 1)

\* parseFrontendFileRegex (lines 608-647) over the lines from line on
RECURSIVE PatternLinesFrom(_, _)
PatternLinesFrom(sites, line) ==
    IF \A i \in 1..Len(sites) : sites[i].line - 1 < line THEN <<>>
    ELSE [k \in 1..Len(LineMatches(sites, line)) |->
              LET match == LineMatches(sites, line)[k]
              IN  [endpoint |-> processEndpointString(match.raw).normalized,
                   params |-> processEndpointString(match.raw).params,
                   line |-> line,
                   rawEndpoint |-> match.raw,
                   httpMethod |-> match.httpMethod]]
         \o PatternLinesFrom(sites, line + 1)

\* the loop body of scanFrontendFiles (lines 256-266) on a readable file
BulkExtraction(document) ==
    IF document.parses
    THEN [strategy |-> "tree", endpoints |-> WalkFrom(document.sites, 1)]
    ELSE [strategy |-> "pattern",
          endpoints |-> PatternLinesFrom(document.sites, 0)]

\* the first site from i on that is recognized and holds the cursor
\* (lines 688-711): the result in a one-element sequence, <<>> for null
RECURSIVE FirstAtFrom(_, _, _)
FirstAtFrom(sites, position, i) ==
    IF i > Len(sites) THEN <<>>
    ELSE LET endpoint == extractEndpointFromNode(NodeOf(sites[i]))
             startCol == ColumnOf(i)
         IN  IF /\ endpoint # <<>>
                /\ position.line = sites[i].line - 1
                /\ position.character >= startCol
                /\ position.character <=
                       startCol + Len(endpoint[1].raw) + 2
             THEN << [endpoint |-> endpoint[1].normalized,
                      httpMethod |-> endpoint[1].httpMethod] >>
             ELSE FirstAtFrom(sites, position, i + 1)

\* the text of a match as it is, for comparison
KeepText(endpoint) == endpoint

\* endpoint.replace(/\$\{([^}]+)\}/g, '{$1}') of line 756
BraceParams(endpoint) == DollarToBraceFrom(endpoint, 1)

\* the first match from k on that holds the cursor (lines 739-759)
RECURSIVE FirstMatchFrom(_, _, _)
FirstMatchFrom(matches, position, k) ==
    IF k > Len(matches) THEN <<>>
    ELSE IF /\ position.character >= matches[k].endpointStart
            /\ position.character <=
                   matches[k].endpointStart + Len(matches[k].raw)
    THEN << [endpoint |-> BraceParams(matches[k].raw),
             httpMethod |-> matches[k].httpMethod] >>
    ELSE FirstMatchFrom(matches, position, k + 1)

detectEndpointAtPositionRegex(document, position) ==
    FirstMatchFrom(LineMatches(document.sites, position.line), position, 1)

detectEndpointAtPosition(document, position) ==
    IF document.parses
    THEN [strategy |-> "tree",
          found |-> FirstAtFrom(document.sites, position, 1)]
    ELSE [strategy |-> "pattern",
          found |-> detectEndpointAtPositionRegex(document, position)]

PointArgs == [document : Documents, position : Positions]

PointInit ==
    /\ IndexInit
    /\ arg \in PointArgs
    /\ res = <<>>

\* the bulk scan of the document, and the point query on the same text
PointCall ==
    /\ res = <<>>
    /\ res' = << [bulk |-> BulkExtraction(arg.document),
                  point |-> detectEndpointAtPosition(arg.document,
                                                     arg.position)] >>
    /\ UNCHANGED <<indexVars, arg>>

SpecPoint == PointInit /\ [][PointCall]_vars

\* C21: whatever detectEndpointAtPosition returns, the bulk extraction of
\* the same text emits a descriptor with that endpoint and method on the
\* cursor's line; both use the tree strategy when the text parses and the
\* pattern fallback when it does not.
C21_PointQueryAgreesWithBulk ==
    res # <<>> =>
        /\ res[1].point.strategy = res[1].bulk.strategy
        /\ res[1].point.strategy =
               (IF arg.document.parses THEN "tree" ELSE "pattern")
        /\ res[1].point.found # <<>> =>
               \E k \in 1..Len(res[1].bulk.endpoints) :
                   /\ res[1].bulk.endpoints[k].endpoint =
                          res[1].point.found[1].endpoint
                   /\ res[1].bulk.endpoints[k].httpMethod =
                          res[1].point.found[1].httpMethod
                   /\ res[1].bulk.endpoints[k].line = arg.position.line

\* C21 witness: the fallback found a template call under the cursor on a
\* line that holds two calls
C21_Witness ==
    /\ res # <<>>
    /\ ~arg.document.parses
    /\ Len(arg.document.sites) = 2
    /\ arg.document.sites[1].line = arg.document.sites[2].line
    /\ res[1].point.found # <<>>
    /\ res[1].point.found[1].endpoint = <<"/","a","p","i","/","u","/","{","i","}">>
    /\ Len(res[1].bulk.endpoints) = 2

(***************************************************************************)
(* Order of the entries that getAllEndpoints returns.                       *)
(***************************************************************************)
\* the keys of descriptors in the order of their first descriptor, leaving
\* out the keys in seen
RECURSIVE FirstKeys(_, _)
FirstKeys(descriptors, seen) ==
    IF descriptors = <<>> THEN <<>>
    ELSE IF KeyOf(Head(descriptors)) \in seen
    THEN FirstKeys(Tail(descriptors), seen)
    ELSE <<KeyOf(Head(descriptors))>>
             \o FirstKeys(Tail(descriptors),
                          seen \cup {KeyOf(Head(descriptors))})

BackendSeeded(e) == e.backendDefinitions # <<>>

\* eps holds the backend keys in scan order, then the keys of the calls
\* without a definition in scan order, and no seeded entry after an
\* unresolved one
InsertionOrder(eps, backendEndpoints, frontendEndpoints) ==
    /\ [i \in 1..Len(eps) |-> eps[i].key] =
           FirstKeys(backendEndpoints, {})
               \o FirstKeys(frontendEndpoints,
                      {KeyOf(backendEndpoints[i]) :
                           i \in 1..Len(backendEndpoints)})
    /\ \A i, j \in 1..Len(eps) :
           (i < j /\ BackendSeeded(eps[j])) => BackendSeeded(eps[i])

\* C22: while the entry set is the one the last rebuild announced,
\* getAllEndpoints returns first the entries seeded by the backend scan in
\* the order of the first descriptor of each key, then the frontend-only
\* entries in the order of their first call; no seeded entry follows a
\* frontend-only one.
C22_EntriesInInsertionOrder ==
    (Rebuilt /\ endpoints = lastFire.entries) =>
        InsertionOrder(getAllEndpoints, lastFire.backendEndpoints,
                       lastFire.frontendEndpoints)

\* a rebuild on its own leaves the entries in insertion order
AloneEntriesInInsertionOrder ==
    res # <<>> =>
        InsertionOrder(getAllEndpoints, arg.backendEndpoints,
                       arg.frontendEndpoints)

(***************************************************************************)
(* One merge pass, descriptor by descriptor (lines 89-161).  The pass       *)
(* starts when the frontend scan returns; the Map then holds what rebuilds  *)
(* that completed during this rebuild's awaits have merged: nothing when    *)
(* the rebuild ran on its own.  arg.backend and arg.frontend count the      *)
(* descriptors of each loop that have been merged.                          *)
(***************************************************************************)
PassScans == [backendEndpoints : DotnetScans, frontendEndpoints : FrontendScans]

\* the Map at the start of the pass
LeftInMap ==
    {<<>>} \cup {Merge(<<>>, other.backendEndpoints, other.frontendEndpoints) :
                    other \in PassScans}

PassInit ==
    /\ endpoints \in LeftInMap
    /\ fired = 0
    /\ calls = [c \in Calls |->
                   IF c = 1 THEN [pc |-> "merge", backendKind |-> "",
                                  backendEndpoints |-> <<>>]
                   ELSE Idle]
    /\ active = TRUE
    /\ lastFire = NoFire
    /\ \E scans \in PassScans :
           arg = [backendEndpoints |-> scans.backendEndpoints,
                  frontendEndpoints |-> scans.frontendEndpoints,
                  alone |-> endpoints = <<>>,
                  backend |-> 0, frontend |-> 0]
    /\ res = <<>>

\* one iteration of the backend loop (lines 89-119)
PassBackend ==
    /\ calls[1].pc = "merge"
    /\ arg.backend < Len(arg.backendEndpoints)
    /\ endpoints' = IndexBackend(endpoints,
                                 arg.backendEndpoints[arg.backend + 1])
    /\ arg' = [arg EXCEPT !.backend = @ + 1]
    /\ UNCHANGED <<fired, calls, active, lastFire, res>>

\* one iteration of the frontend loop (lines 122-159)
PassFrontend ==
    /\ calls[1].pc = "merge"
    /\ arg.backend = Len(arg.backendEndpoints)
    /\ arg.frontend < Len(arg.frontendEndpoints)
    /\ endpoints' = IndexFrontend(endpoints,
                                  arg.frontendEndpoints[arg.frontend + 1])
    /\ arg' = [arg EXCEPT !.frontend = @ + 1]
    /\ UNCHANGED <<fired, calls, active, lastFire, res>>

\* line 161: the notification that ends the pass
PassEnds ==
    /\ calls[1].pc = "merge"
    /\ arg.backend = Len(arg.backendEndpoints)
    /\ arg.frontend = Len(arg.frontendEndpoints)
    /\ FireRebuilt(endpoints, arg.backendEndpoints, arg.frontendEndpoints)
    /\ calls' = [calls EXCEPT ![1] = Ended("done")]
    /\ UNCHANGED <<endpoints, active, arg, res>>

PassNext == PassBackend \/ PassFrontend \/ PassEnds

SpecPass == PassInit /\ [][PassNext]_vars

\* a step of the pass keeps i-th entry's status within the claimed order
MonotoneStep(i) ==
    /\ endpoints[i].status \in {"invalid", "unresolved"} =>
           endpoints'[i].status = endpoints[i].status
    /\ (endpoints'[i].status = "param-mismatch"
            /\ endpoints[i].status # "param-mismatch") =>
           endpoints[i].status = "valid"
    /\ endpoints[i].status # "valid" => endpoints'[i].status # "valid"

\* C23: in every step of a merge pass, an entry that is invalid or
\* unresolved keeps its status, an entry becomes param-mismatch only from
\* valid, and no entry that has left valid returns to it.
C23_StatusMonotoneInPass ==
    [][\A i \in 1..Len(endpoints) : MonotoneStep(i)]_vars

\* the same for the pass of a rebuild that ran on its own
AlonePassStatusMonotone ==
    [][arg.alone => \A i \in 1..Len(endpoints) : MonotoneStep(i)]_vars

(***************************************************************************)
(* The /api prefix of the routes that buildFullEndpoint returns.            *)
(***************************************************************************)
\* route is /api, or /api/ and more
UnderApi(route) ==
    /\ startsWith(route, <<"/","a","p","i">>)
    /\ Len(route) > 4 => route[5] = "/"

\* C24: for every class route, method route, controller name and action
\* name, the route that buildFullEndpoint returns starts with / and has api
\* as its first segment, and does not start with /api/api when the class
\* route starts with api.
C24_EveryRouteUnderApi ==
    res # <<>> =>
        /\ UnderApi(res[1])
        /\ startsWith(toLowerCase(arg.classRoute), <<"a","p","i">>) =>
               ~startsWith(res[1], <<"/","a","p","i","/","a","p","i">>)

\* the same for a class route that names its first segment
RouteUnderApiWithClassSegment ==
    (res # <<>> /\ arg.classRoute \notin {<<>>, ControllerPlaceholder}) =>
        UnderApi(res[1])

(***************************************************************************)
(* The router-graph traversal of scanFastApiEndpoints.  A backend is the    *)
(* listing of its root, the files under it, and the include_router lines of *)
(* those files with the module their router is imported from, in the order  *)
(* of the lines.  A path is a sequence of characters, with the separator    *)
(* and the file suffixes as single elements; the file system opens a file   *)
(* whatever the letter case of the path.  A module is its dotted            *)
(* components.  res holds the call stack of scanPythonFile, visitedFiles    *)
(* and the files read so far.                                               *)
(***************************************************************************)
MaxEdges == 2

MAX_IMPORT_DEPTH == 10

backendRoot == <<"/","w">>

\* path.join(backendRoot, relativePath)
UnderRoot(relativePath) == backendRoot \o <<"/">> \o relativePath

\* a package p with two modules and a subpackage, two modules in the root,
\* a hidden directory and a cache directory
RootListing ==
    { [name |-> <<"p">>, isDirectory |-> TRUE],
      [name |-> <<"m", ".py">>, isDirectory |-> FALSE],
      [name |-> <<"r", ".py">>, isDirectory |-> FALSE],
      [name |-> <<".", "v">>, isDirectory |-> TRUE],
      [name |-> <<"__pycache__">>, isDirectory |-> TRUE] }

PyFiles ==
    { UnderRoot(<<"m", ".py">>), UnderRoot(<<"r", ".py">>),
      UnderRoot(<<"p", "/", "a", ".py">>), UnderRoot(<<"p", "/", "b", ".py">>),
      UnderRoot(<<"p", "/", "s", "/", "__init__.py">>) }

\* imports of the package's modules, one spelled in another letter case, of
\* the root's modules, of the subpackage, of a module the package lacks, of
\* the package under another letter case and of a library
Modules ==
    { << <<"p">>, <<"a">> >>, << <<"p">>, <<"b">> >>, << <<"p">>, <<"A">> >>,
      << <<"m">> >>, << <<"r">> >>, << <<"p">>, <<"s">> >>,
      << <<"p">>, <<"z">> >>, << <<"P">>, <<"b">> >>,
      << <<"x">>, <<"a">> >> }

\* the k-th file of a chain of imports, and the module it is imported as
ChainModule(k) == << [i \in 1..k |-> "d"] >>

ChainFile(k) == UnderRoot(ChainModule(k)[1] \o <<".py">>)

ChainLength == MAX_IMPORT_DEPTH + 2

\* a chain of modules in the root, each including the next, longer than the
\* depth limit
DeepChain ==
    [entry |-> ChainFile(1),
     listing |-> {[name |-> ChainModule(k)[1] \o <<".py">>,
                   isDirectory |-> FALSE] : k \in 1..ChainLength},
     files |-> {ChainFile(k) : k \in 1..ChainLength},
     edges |-> [k \in 1..(ChainLength - 1) |->
                   [from |-> ChainFile(k), module |-> ChainModule(k + 1)]]]

Backends ==
    [entry : {UnderRoot(<<"m", ".py">>)},
     listing : {RootListing},
     files : {PyFiles},
     edges : SeqsUpTo([from : {UnderRoot(<<"m", ".py">>),
                               UnderRoot(<<"p", "/", "a", ".py">>)},
                       module : Modules], MaxEdges)]
    \cup {DeepChain}

\* path.normalize(filePath).toLowerCase()
normalizedPath(filePath) == toLowerCase(filePath)

\* fs.existsSync
existsSync(filePath) ==
    \E file \in arg.files : normalizedPath(file) = normalizedPath(filePath)

\* getWorkspacePackages (lines 443-462)
getWorkspacePackages(listing) ==
    {entry.name : entry \in
        {e \in listing : /\ e.isDirectory
                          /\ e.name[1] # "."
                          /\ e.name # <<"__pycache__">>}}
    \cup {SubSeq(entry.name, 1, Len(entry.name) - 1) : entry \in
             {e \in listing : /\ ~e.isDirectory
                               /\ e.name[Len(e.name)] = ".py"}}

\* parts.join(path.sep)
RECURSIVE JoinParts(_)
JoinParts(parts) ==
    IF Len(parts) = 1 THEN parts[1]
    ELSE parts[1] \o <<"/">> \o JoinParts(Tail(parts))

\* a resolution that asks only whether the file exists, for comparison
resolveExistingPath(parts, workspacePackages) ==
    IF existsSync(UnderRoot(JoinParts(parts) \o <<".py">>))
    THEN <<UnderRoot(JoinParts(parts) \o <<".py">>)>>
    ELSE IF existsSync(UnderRoot(JoinParts(parts) \o <<"/", "__init__.py">>))
    THEN <<UnderRoot(JoinParts(parts) \o <<"/", "__init__.py">>)>>
    ELSE <<>>

\* resolveModulePath (lines 640-681) on a module of the form [\w.]+ with a
\* first component: the path in a one-element sequence, <<>> for null
resolveModulePath(parts, workspacePackages) ==
    IF parts[1] \notin workspacePackages THEN <<>>
    ELSE IF existsSync(UnderRoot(JoinParts(parts) \o <<".py">>))
    THEN <<UnderRoot(JoinParts(parts) \o <<".py">>)>>
    ELSE IF existsSync(UnderRoot(JoinParts(parts) \o <<"/", "__init__.py">>))
    THEN <<UnderRoot(JoinParts(parts) \o <<"/", "__init__.py">>)>>
    ELSE <<>>

\* the include_router lines of filePath whose findImportSource is not null:
\* the file and the module of each, in order
RECURSIVE IncludesFrom(_, _, _)
IncludesFrom(edges, filePath, i) ==
    IF i > Len(edges) THEN <<>>
    ELSE LET resolved == resolveModulePath(edges[i].module,
                             getWorkspacePackages(arg.listing))
         IN  (IF /\ edges[i].from = normalizedPath(filePath)
                 /\ resolved # <<>>
              THEN <<[filePath |-> resolved[1], module |-> edges[i].module]>>
              ELSE <<>>)
             \o IncludesFrom(edges, filePath, i + 1)

Includes(filePath) == IncludesFrom(arg.edges, filePath, 1)

\* a guard that only limits the depth, for comparison
DepthGuard(filePath, depth, visitedFiles) == depth > MAX_IMPORT_DEPTH

\* line 480: the guard of scanPythonFile
RevisitOrDepthGuard(filePath, depth, visitedFiles) ==
    normalizedPath(filePath) \in visitedFiles \/ depth > MAX_IMPORT_DEPTH

Frame(filePath, depth, module) ==
    [filePath |-> filePath, depth |-> depth, module |-> module, line |-> 0]

Top == res.stack[Len(res.stack)]

Pop == SubSeq(res.stack, 1, Len(res.stack) - 1)

TraverseInit ==
    /\ IndexInit
    /\ arg \in Backends
    /\ res = [pc |-> "start", stack |-> <<>>, visitedFiles |-> {},
              scanned |-> <<>>]

\* scanFastApiEndpoints calls scanPythonFile on the entrypoint (lines
\* 425-435)
TraverseStart ==
    /\ res.pc = "start"
    /\ res' = [res EXCEPT !.pc = "scanning",
                          !.stack = <<Frame(arg.entry, 0, <<>>)>>]
    /\ UNCHANGED <<indexVars, arg>>

\* scanPythonFile from its call to its loop (lines 477-490): the guard
\* returns, or the file is marked and read
ScanEnter ==
    /\ res.pc = "scanning"
    /\ res.stack # <<>>
    /\ Top.line = 0
    /\ IF RevisitOrDepthGuard(Top.filePath, Top.depth, res.visitedFiles)
       THEN res' = [res EXCEPT !.stack = Pop]
       ELSE res' = [res EXCEPT
                !.visitedFiles = @ \cup {normalizedPath(Top.filePath)},
                !.scanned = Append(@, [filePath |-> Top.filePath,
                                       depth |-> Top.depth,
                                       module |-> Top.module]),
                !.stack = Pop \o <<[Top EXCEPT !.line = 1]>>]
    /\ UNCHANGED <<indexVars, arg>>

\* an include_router line whose import resolves: the recursive call of
\* lines 556-565
ScanInclude ==
    /\ res.pc = "scanning"
    /\ res.stack # <<>>
    /\ Top.line \in 1..Len(Includes(Top.filePath))
    /\ res' = [res EXCEPT !.stack =
                   Pop \o <<[Top EXCEPT !.line = @ + 1],
                            Frame(Includes(Top.filePath)[Top.line].filePath,
                                  Top.depth + 1,
                                  Includes(Top.filePath)[Top.line].module)>>]
    /\ UNCHANGED <<indexVars, arg>>

\* the loop of scanPythonFile ends and the call returns
ScanReturn ==
    /\ res.pc = "scanning"
    /\ res.stack # <<>>
    /\ Top.line > Len(Includes(Top.filePath))
    /\ res' = [res EXCEPT !.stack = Pop]
    /\ UNCHANGED <<indexVars, arg>>

\* scanFastApiEndpoints returns (line 437)
TraverseReturns ==
    /\ res.pc = "scanning"
    /\ res.stack = <<>>
    /\ res' = [res EXCEPT !.pc = "returned"]
    /\ UNCHANGED <<indexVars, arg>>

TraverseNext ==
    \/ TraverseStart
    \/ ScanEnter
    \/ ScanInclude
    \/ ScanReturn
    \/ TraverseReturns

SpecTraverse == TraverseInit /\ [][TraverseNext]_vars

\* the scan is one chain of awaited calls: it always takes its next step
SpecTraverseFair == SpecTraverse /\ WF_vars(TraverseNext)

\* no file read twice, none read deeper than the limit
ReadOnceWithinDepth ==
    /\ \A i, j \in 1..Len(res.scanned) :
           normalizedPath(res.scanned[i].filePath)
               = normalizedPath(res.scanned[j].filePath) => i = j
    /\ \A i \in 1..Len(res.scanned) :
           res.scanned[i].depth <= MAX_IMPORT_DEPTH

\* C25: scanFastApiEndpoints returns for every backend, cyclic includes
\* among them, and at no time has it read a file (by normalized, lower-cased
\* path) twice or read a file at a depth over MAX_IMPORT_DEPTH.
C25_TraversalTerminatesWithinLimits ==
    []ReadOnceWithinDepth /\ <>(res.pc = "returned")

\* C25 witness: the scan of a backend whose two files include each other
\* has returned after reading both
C25_Witness ==
    /\ res.pc = "returned"
    /\ arg.edges =
           << [from |-> UnderRoot(<<"m", ".py">>),
               module |-> << <<"p">>, <<"A">> >>],
              [from |-> UnderRoot(<<"p", "/", "a", ".py">>),
               module |-> << <<"m">> >>] >>
    /\ Len(res.scanned) = 2

\* the names of the directories and of the .py files directly inside the
\* backend root
TopLevelNames ==
    {e.name : e \in {d \in arg.listing : d.isDirectory}}
    \cup {SubSeq(e.name, 1, Len(e.name) - 1) :
             e \in {f \in arg.listing :
                       ~f.isDirectory /\ f.name[Len(f.name)] = ".py"}}

\* a call or a read of a file other than the entrypoint came from an import
\* of a top-level name and its path is under the backend root
FromWorkspaceImport(reached) ==
    reached.module # <<>> =>
        /\ reached.module[1] \in TopLevelNames
        /\ startsWith(reached.filePath, backendRoot \o <<"/">>)

\* C26: every file that the traversal reads or calls scanPythonFile on,
\* other than the entrypoint, was reached through an import whose first
\* dotted component names a directory or .py file directly inside the
\* backend root, and its path is under the backend root; no other import is
\* followed.
C26_OnlyWorkspaceImportsFollowed ==
    /\ \A i \in 1..Len(res.scanned) : FromWorkspaceImport(res.scanned[i])
    /\ \A i \in 1..Len(res.stack) : FromWorkspaceImport(res.stack[i])
    /\ \A i \in 2..Len(res.scanned) : res.scanned[i].module # <<>>

\* C26 witness: the entrypoint includes a router of a library and one of
\* the package; the scan has returned after reading the entrypoint and the
\* package's module
C26_Witness ==
    /\ res.pc = "returned"
    /\ arg.edges =
           << [from |-> UnderRoot(<<"m", ".py">>),
               module |-> << <<"x">>, <<"a">> >>],
              [from |-> UnderRoot(<<"m", ".py">>),
               module |-> << <<"p">>, <<"b">> >>] >>
    /\ Len(res.scanned) = 2
    /\ res.scanned[2].filePath = UnderRoot(<<"p", "/", "b", ".py">>)

(***************************************************************************)
(* scanPythonFile on the lines of one file: router definitions, route       *)
(* decorators and include_router calls of routers that no import brings in. *)
(***************************************************************************)
MaxPyLines == 3

\* buildFullPath (lines 686-721)
buildFullPath(prefix, routePath) ==
    LET full == IF prefix # <<>> /\ ~startsWith(prefix, <<"/">>)
                THEN <<"/">> \o prefix ELSE prefix
        route == IF routePath # <<>> /\ ~startsWith(routePath, <<"/">>)
                 THEN <<"/">> \o routePath ELSE routePath
        combined ==
            IF full # <<>> /\ route # <<>>
            THEN IF endsWith(full, <<"/">>) /\ startsWith(route, <<"/">>)
                 THEN full \o Tail(route)
                 ELSE full \o route
            ELSE IF full # <<>> THEN full
            ELSE IF route # <<>> THEN route
            ELSE <<"/">>
        collapsed == CollapseSlashes(combined)
    IN  IF Len(collapsed) > 1 /\ endsWith(collapsed, <<"/">>)
        THEN SubSeq(collapsed, 1, Len(collapsed) - 1)
        ELSE collapsed

RouterDef(varName) == [kind |-> "routerDef", varName |-> varName]

Decorator(routerVar, verb, routePath) ==
    [kind |-> "decorator", routerVar |-> routerVar, verb |-> verb,
     routePath |-> routePath]

IncludeRouter(parentVar, childRouter, prefix) ==
    [kind |-> "include", parentVar |-> parentVar,
     childRouter |-> childRouter, prefix |-> prefix]

\* lines 497-508: the routers tracked before the loop, each with its prefix
RECURSIVE RouterDefsFrom(_, _, _)
RouterDefsFrom(lines, i, routers) ==
    IF i > Len(lines) THEN routers
    ELSE RouterDefsFrom(lines, i + 1,
             IF /\ lines[i].kind = "routerDef"
                /\ lines[i].varName \notin DOMAIN routers
             THEN routers @@ (lines[i].varName :> <<>>)
             ELSE routers)

\* lines 543-575 for a child that no import brings in: the child's prefix
\* becomes the combined prefix
SetChildPrefix(routers, line) ==
    IF /\ line.parentVar \in DOMAIN routers
       /\ line.childRouter \in DOMAIN routers
    THEN [routers EXCEPT ![line.childRouter] =
              buildFullPath(routers[line.parentVar], line.prefix)]
    ELSE routers

\* the loop of lines 511-577 from line i on: the descriptors pushed
RECURSIVE ScanLinesFrom(_, _, _)
ScanLinesFrom(lines, i, routers) ==
    IF i > Len(lines) THEN <<>>
    ELSE CASE lines[i].kind = "decorator" ->
                  (IF lines[i].routerVar \in DOMAIN routers
                   THEN << [rawEndpoint |->
                                buildFullPath(routers[lines[i].routerVar],
                                              lines[i].routePath),
                            endpoint |->
                                normalizeEndpointDecorator(
                                    buildFullPath(routers[lines[i].routerVar],
                                                  lines[i].routePath)),
                            httpMethod |-> toUpperCase(lines[i].verb),
                            line |-> i] >>
                   ELSE <<>>)
                  \o ScanLinesFrom(lines, i + 1, routers)
           [] lines[i].kind = "include" ->
                  ScanLinesFrom(lines, i + 1,
                                SetChildPrefix(routers, lines[i]))
           [] OTHER -> ScanLinesFrom(lines, i + 1, routers)

\* scanPythonFile on a file that was read (lines 491-577)
scanPythonLines(targetVar, routePrefix, lines) ==
    ScanLinesFrom(lines, 1,
        RouterDefsFrom(lines, 1, targetVar :> routePrefix))

\* lines after `router = APIRouter()`: routes of the router and of the app,
\* and registrations of the router with a prefix, without one, and on a
\* variable that is not tracked
PyLines ==
    { Decorator("router", <<"g","e","t">>, <<"/","x">>),
      Decorator("router", <<"P","o","s","t">>, <<"{","a",":","a","}">>),
      Decorator("app", <<"g","e","t">>, <<"/","h">>),
      IncludeRouter("app", "router", <<"/","v">>),
      IncludeRouter("app", "router", <<>>),
      IncludeRouter("other", "router", <<"/","z">>) }

LinesArgs ==
    [routePrefix : { <<>>, <<"/","a","p","i">> },
     lines : {<<RouterDef("router")>> \o lines :
                 lines \in SeqsUpTo(PyLines, MaxPyLines)}]

LinesInit ==
    /\ IndexInit
    /\ arg \in LinesArgs
    /\ res = <<>>

LinesCall ==
    /\ res = <<>>
    /\ res' = <<scanPythonLines("app", arg.routePrefix, arg.lines)>>
    /\ UNCHANGED <<indexVars, arg>>

SpecLines == LinesInit /\ [][LinesCall]_vars

\* the lines that register the router on the tracked app
Registrations ==
    {r \in 1..Len(arg.lines) :
        /\ arg.lines[r].kind = "include"
        /\ arg.lines[r].parentVar = "app"
        /\ arg.lines[r].childRouter = "router"}

\* the descriptor of decorator line d carries the prefixes of registration r
EmittedUnder(d, r) ==
    \E k \in 1..Len(res[1]) :
        /\ res[1][k].line = d
        /\ res[1][k].rawEndpoint =
               buildFullPath(buildFullPath(arg.routePrefix,
                                           arg.lines[r].prefix),
                             arg.lines[d].routePath)

RouterDecorators ==
    {d \in 1..Len(arg.lines) :
        arg.lines[d].kind = "decorator" /\ arg.lines[d].routerVar = "router"}

\* C27: in a file that defines the router and registers it once on the app
\* (tracked with prefix Q) with prefix P, every decorator route of the
\* router is emitted with Q joined with P joined with its path, before the
\* registration line as after it.
C27_ChildRoutesCarryPrefixes ==
    (res # <<>> /\ Cardinality(Registrations) = 1) =>
        \A d \in RouterDecorators : \A r \in Registrations :
            EmittedUnder(d, r)

\* the same for the decorators after the registration line
RoutesAfterRegistrationCarryPrefixes ==
    (res # <<>> /\ Cardinality(Registrations) = 1) =>
        \A d \in RouterDecorators : \A r \in Registrations :
            d > r => EmittedUnder(d, r)

(***************************************************************************)
(* The debounced refresh of the file watchers (debounce.ts, extension.ts    *)
(* 148-151).  Time is counted in ticks.  res holds the clock, timeoutId     *)
(* (0 for undefined), the timers that the runtime holds, the calls made and *)
(* the invocations of the wrapped function; a timer carries the number of   *)
(* the call that set it.  A timer that is due runs before the clock moves   *)
(* on and before another call is delivered.                                 *)
(***************************************************************************)
wait == 2

MaxTime == 5

MaxDebounced == 3

\* the arguments of a call: the event that a watcher passes
WatcherEvents == {"change", "create"}

\* a call that leaves the pending timer alone, for comparison
keepTimeout(timers, timeoutId) == timers

\* lines 12-14: clearTimeout when timeoutId is set
clearTimeout(timers, timeoutId) ==
    IF timeoutId # 0 THEN {t \in timers : t.id # timeoutId} ELSE timers

Due == {t \in res.timers : t.due <= res.now}

DebounceInit ==
    /\ IndexInit
    /\ arg = <<>>
    /\ res = [now |-> 0, timeoutId |-> 0, timers |-> {}, history |-> <<>>,
              invoked |-> <<>>]

\* the debounced function is called (lines 11-20)
DebouncedCall(args) ==
    /\ Len(res.history) < MaxDebounced
    /\ Due = {}
    /\ LET id == Len(res.history) + 1
       IN  res' = [res EXCEPT
               !.history = Append(@, [at |-> res.now, args |-> args]),
               !.timers = clearTimeout(@, res.timeoutId)
                              \cup {[id |-> id, due |-> res.now + wait,
                                     args |-> args]},
               !.timeoutId = id]
    /\ UNCHANGED <<indexVars, arg>>

\* a timer's callback runs (lines 16-19)
TimerFires ==
    /\ \E t \in Due :
           res' = [res EXCEPT
               !.invoked = Append(@, [at |-> res.now, args |-> t.args,
                                      call |-> t.id]),
               !.timers = @ \ {t},
               !.timeoutId = 0]
    /\ UNCHANGED <<indexVars, arg>>

Tick ==
    /\ res.now < MaxTime
    /\ Due = {}
    /\ res' = [res EXCEPT !.now = @ + 1]
    /\ UNCHANGED <<indexVars, arg>>

DebounceNext ==
    \/ \E args \in WatcherEvents : DebouncedCall(args)
    \/ TimerFires
    \/ Tick

SpecDebounce == DebounceInit /\ [][DebounceNext]_vars

\* call k is the last of its burst: no call follows it within wait
EndsBurst(k) ==
    \/ /\ k = Len(res.history)
       /\ res.now >= res.history[k].at + wait
    \/ /\ k < Len(res.history)
       /\ res.history[k + 1].at - res.history[k].at >= wait

InvocationsOf(k) == {i \in 1..Len(res.invoked) : res.invoked[i].call = k}

\* C28: of the calls of a burst (each less than wait after the one before)
\* only the last invokes the wrapped function, once, no sooner than wait
\* after it and with its arguments; a call made while a timer is pending
\* leaves no invocation for the call that set that timer.
C28_BurstInvokesOnceWithLastArguments ==
    \A k \in 1..Len(res.history) :
        /\ \A i \in InvocationsOf(k) :
               /\ res.invoked[i].args = res.history[k].args
               /\ res.invoked[i].at >= res.history[k].at + wait
               /\ \A j \in 1..Len(res.history) :
                      j > k => res.history[j].at >= res.invoked[i].at
        /\ Cardinality(InvocationsOf(k)) <= 1
        /\ (EndsBurst(k) /\ (k < Len(res.history) \/ Due = {})) =>
               Cardinality(InvocationsOf(k)) = 1
        /\ (k < Len(res.history) /\ ~EndsBurst(k)) => InvocationsOf(k) = {}

\* C28 witness: a burst of two calls with different arguments, then a
\* later call; the burst has invoked the function once, with the second
\* call's arguments
C28_Witness ==
    /\ Len(res.history) = 3
    /\ res.history[2].at - res.history[1].at < wait
    /\ res.history[3].at - res.history[2].at >= wait
    /\ res.history[1].args # res.history[2].args
    /\ Len(res.invoked) = 2
    /\ res.invoked[1].args = res.history[2].args

(***************************************************************************)
(* The param-mismatch status after a rebuild.                               *)
(***************************************************************************)
\* e has one backend definition and a call whose parameters are not the
\* definition's
OneDefinitionAndDifferingCall(e) ==
    /\ Len(e.backendDefinitions) = 1
    /\ \E k \in 1..Len(e.frontends) : e.frontends[k].params # e.backendParams

MismatchIffDiffers(eps) ==
    \A i \in 1..Len(eps) :
        eps[i].status = "param-mismatch" <=>
            OneDefinitionAndDifferingCall(eps[i])

\* the status of each key in eps
StatusByKey(eps) == {<<eps[i].key, eps[i].status>> : i \in 1..Len(eps)}

Orders(n) ==
    {p \in [1..n -> 1..n] : \A i, j \in 1..n : p[i] = p[j] => i = j}

\* C29: while the entry set is the one the last rebuild announced, an entry
\* is param-mismatch exactly when it has one backend definition and a
\* frontend call whose parameter list differs from backendParams, in
\* whatever order the frontend descriptors were merged (so a later call
\* with matching parameters does not make it valid again).
C29_MismatchIffOneDefinitionAndDifferingCall ==
    (Rebuilt /\ endpoints = lastFire.entries) =>
        /\ MismatchIffDiffers(getAllEndpoints)
        /\ \A p \in Orders(Len(lastFire.frontendEndpoints)) :
               StatusByKey(getAllEndpoints) =
                   StatusByKey(Merge(<<>>, lastFire.backendEndpoints,
                       [k \in 1..Len(lastFire.frontendEndpoints) |->
                           lastFire.frontendEndpoints[p[k]]]))

\* the same after a rebuild on its own
AloneMismatchIffDiffers ==
    res # <<>> =>
        /\ MismatchIffDiffers(getAllEndpoints)
        /\ \A p \in Orders(Len(arg.frontendEndpoints)) :
               StatusByKey(getAllEndpoints) =
                   StatusByKey(Merge(<<>>, arg.backendEndpoints,
                       [k \in 1..Len(arg.frontendEndpoints) |->
                           arg.frontendEndpoints[p[k]]]))

(***************************************************************************)
(* Placeholders of an emitted route in the index key                        *)
(* (backendScanner.ts 222-223, 331-352; EndpointIndex.ts 169-185).          *)
(***************************************************************************)
\* /\{(\*{0,2})([a-zA-Z_][a-zA-Z0-9_]*)(?::[^}]+)?(\?)?\}/ of
\* extractRouteParams tried at position i: the position of the closing
\* brace and match[2], the parameter name, or NoMatch
ExtractMatch(s, i) ==
    LET n == RunEnd(s, i + 1, {"*"})             \* name starts here
        j == RunEnd(s, n, NameChars)             \* name ends before here
        e == IF RouteCharAt(s, j) = ":"
             THEN RunEnd(s, j + 1, {s[k] : k \in 1..Len(s)} \ {"}"})
             ELSE j                              \* constraint ends before
        q == IF RouteCharAt(s, e) = "?" THEN e + 1 ELSE e
    IN  IF /\ s[i] = "{"
           /\ n - (i + 1) <= 2
           /\ RouteCharAt(s, n) \in NameStart
           /\ (RouteCharAt(s, j) = ":" => e > j + 1)
           /\ RouteCharAt(s, q) = "}"
        THEN [end |-> q, text |-> SubSeq(s, n, j - 1)]
        ELSE NoMatch

\* the positions at which paramPattern.exec finds its matches, from i on
RECURSIVE RecognizedFrom(_, _)
RecognizedFrom(s, i) ==
    IF i > Len(s) THEN {}
    ELSE IF ExtractMatch(s, i).end # 0
    THEN {i} \cup RecognizedFrom(s, ExtractMatch(s, i).end + 1)
    ELSE RecognizedFrom(s, i + 1)

\* the route as a call site writes it: every recognized placeholder as
\* {name}
RECURSIVE PlainFrom(_, _)
PlainFrom(s, i) ==
    IF i > Len(s) THEN <<>>
    ELSE IF ExtractMatch(s, i).end # 0
    THEN <<"{">> \o ExtractMatch(s, i).text \o <<"}">>
             \o PlainFrom(s, ExtractMatch(s, i).end + 1)
    ELSE <<s[i]>> \o PlainFrom(s, i + 1)

\* routes with optional and catch-all parameters under a literal segment
KeyRoutes ==
    { <<"/","a","/","{","a","?","}">>,
      <<"/","a","/","{","a",":","a","?","}">>,
      <<"/","a","/","{","*","a","}">>,
      <<"/","a","/","{","*","*","a","}">>,
      <<"/","a","/","{","a","?","}","/","{","a","1","}">> }

KeyArgs == RouteArgs \cup KeyRoutes

KeyInit ==
    /\ IndexInit
    /\ arg \in KeyArgs
    /\ res = <<>>

\* the attribute scanner emits the route (line 223) and the index files it
\* under its key (EndpointIndex.ts 91); a call site that writes the same
\* route with plain placeholders is looked up under its own key (line 123)
KeyCall ==
    /\ res = <<>>
    /\ LET endpoint == normalizeEndpointAttribute(arg)
       IN  res' = << [endpoint |-> endpoint,
                      recognized |-> RecognizedFrom(endpoint, 1),
                      backendKey |->
                          normalizeEndpoint(endpoint, <<"G","e","t">>),
                      frontendKey |->
                          normalizeEndpoint(PlainFrom(endpoint, 1),
                                            <<"G","E","T">>)] >>
    /\ UNCHANGED <<indexVars, arg>>

SpecKey == KeyInit /\ [][KeyCall]_vars

\* C30: a route emitted by the attribute scanner and the call-site path that
\* writes each placeholder the parameter extraction recognizes in it as
\* {name} get the same index key, optional and catch-all placeholders
\* included, so both are filed in one entry.
C30_RecognizedPlaceholdersShareKey ==
    res # <<>> => res[1].backendKey = res[1].frontendKey

\* the same for emitted routes without an optional marker
RouteWithoutOptionalMarkerSharesKey ==
    (res # <<>> /\ indexOf(res[1].endpoint, "?", 1) = 0) =>
        res[1].backendKey = res[1].frontendKey

====
